---- MODULE Spec2Model ----
(***************************************************************************)
(* A model of two parts of docarray:                                       *)
(*   - BaseDocument.__setattr__ (docarray/base_document/document.py): a    *)
(*     document that is a view into a DocumentArrayStacked forwards its    *)
(*     field writes to the columns of the stack;                           *)
(*   - RedisDocumentIndex (docarray/index/backends/redis.py): index        *)
(*     life cycle, query building and execution, insertion.                *)
(* Each part has its own specification (SpecDoc, SpecIndex, SpecQuery,     *)
(* SpecInsert) over the shared list of variables.                          *)
(***************************************************************************)
EXTENDS Integers, Sequences, FiniteSets, TLC

VARIABLES
    tf_available,   \* document.py:15   is TensorFlow importable
    schema,         \* the names in the document type's __fields__
    da_ref,         \* document.py:37   "None" or "store"
    da_index,       \* document.py:38   the row of the document in the stack (0: None)
    fields,         \* the document's own attribute values (its __dict__)
    heap,           \* tensor buffers: reference -> contents
    tensor_columns, \* the stack's tensor columns: field -> row -> reference
    doc_columns,    \* the stack's _doc_columns: field -> row -> document
    last,           \* the last assignment: inputs, state before, outcome
    redis_indexes,  \* the server's search indexes: name -> schema
    redis_keys,     \* the server's keys: key -> JSON document
    calls,          \* the calls the last operation made to the server
    instance,       \* the RedisDocumentIndex instance (_db_config, _prefix, ...)
    builder,        \* redis.py:172  the _queries of the QueryBuilder
    result,         \* the last operation on the index: inputs and outcome
    generator       \* redis.py:308  the _generate_item generator _index iterates

docVars == <<tf_available, schema, da_ref, da_index, fields, heap, tensor_columns,
             doc_columns, last>>

redisVars == <<redis_indexes, redis_keys, calls, instance, builder, result,
               generator>>

vars == <<docVars, redisVars>>

(***************************************************************************)
(* Bounds                                                                  *)
(***************************************************************************)
MaxLen == 2     \* longest tensor
NDocs  == 2     \* rows of the stack

Bits == {0, 1}

TensorData == UNION {[1..n -> Bits] : n \in 1..MaxLen}

(***************************************************************************)
(* Python values handed to an assignment.  A value is a kind and a payload *)
(***************************************************************************)
TensorValues == [kind : {"ndarray"}, data : TensorData]
TfValues     == [kind : {"tf"}, data : {<<0>>}]
DocValues    == [kind : {"doc"}, data : {<<0>>, <<1>>}]
IntValues    == [kind : {"int"}, data : {<<0>>, <<1>>}]
StrValues    == [kind : {"str"}, data : {<<1>>}]          \* the string '1'
OtherValues  == [kind : {"object"}, data : {<<>>}]

Values(tf) ==
    TensorValues \cup DocValues \cup IntValues \cup StrValues \cup OtherValues
        \cup (IF tf THEN TfValues ELSE {})

(***************************************************************************)
(* The document types: a tensor field, a nested document and a field of    *)
(* another kind.  TensorFlowTensor exists only when TensorFlow is          *)
(* importable.                                                             *)
(***************************************************************************)
DocumentTypes(tf) ==
    {{"tensor", "nested", "num"}}
        \cup (IF tf THEN {{"tf_tensor", "nested", "num"}} ELSE {})

_get_field_type(name) ==
    CASE name = "tensor"    -> "NdArray"
      [] name = "tf_tensor" -> "TensorFlowTensor"
      [] name = "nested"    -> "BaseDocument"
      [] OTHER              -> "int"

is_type_tensor(field_type) == field_type \in {"NdArray", "TensorFlowTensor"}

TensorFields(names) == {n \in names : is_type_tensor(_get_field_type(n))}

\* document.py:92-94
IsTensorFlowWrite_ValueOnly(field_type, value) ==
    value.kind = "tf"

IsTensorFlowWrite(field_type, value) ==
    \/ field_type = "TensorFlowTensor"
    \/ value.kind = "tf"

(***************************************************************************)
(* pydantic validation of an assignment (Config.validate_assignment)       *)
(***************************************************************************)
Valid(field_type, value) ==
    CASE field_type = "NdArray"          -> value.kind = "ndarray"
      [] field_type = "TensorFlowTensor" -> value.kind \in {"tf", "ndarray"}
      [] field_type = "BaseDocument"     -> value.kind = "doc"
      [] OTHER                           -> value.kind \in {"int", "str"}

\* the validated value: tensors become their contents, '1' becomes 1
Validate(field_type, value) ==
    CASE is_type_tensor(field_type)      -> value.data
      [] field_type = "BaseDocument"     -> value
      [] OTHER                           -> [kind |-> "int", data |-> value.data]

(***************************************************************************)
(* Buffers                                                                 *)
(***************************************************************************)
Alloc(h) ==
    CHOOSE r \in 1..(Cardinality(DOMAIN h) + 1) :
        /\ r \notin DOMAIN h
        /\ \A q \in 1..(r - 1) : q \in DOMAIN h

\* numpy slice assignment: the source is broadcast to the target's shape
Broadcastable(src, dst) == Len(src) = Len(dst) \/ Len(src) = 1

Broadcast(src, n) == [i \in 1..n |-> IF Len(src) = 1 THEN src[1] ELSE src[i]]

\* references the document or the stack still hold
Reachable(d) ==
    {d.fields[n] : n \in {m \in DOMAIN d.fields : is_type_tensor(_get_field_type(m))}}
        \cup {d.tensor_columns[n][i] : n \in DOMAIN d.tensor_columns, i \in 1..NDocs}

\* Buffers nothing refers to any more are freed; the references that remain
\* are renumbered in their order, so that a state does not depend on which
\* free reference an allocation happened to take.
Rank(r, live) == Cardinality({q \in live : q <= r})

Collect(d) ==
    LET live == (DOMAIN d.heap) \cap Reachable(d)
        freed(r) == CHOOSE q \in live : Rank(q, live) = r
    IN  [d EXCEPT
            !.heap = [r \in 1..Cardinality(live) |-> d.heap[freed(r)]],
            !.fields = [n \in DOMAIN d.fields |->
                           IF is_type_tensor(_get_field_type(n))
                           THEN Rank(d.fields[n], live) ELSE d.fields[n]],
            !.tensor_columns = [n \in DOMAIN d.tensor_columns |->
                           [i \in 1..NDocs |-> Rank(d.tensor_columns[n][i], live)]]]

(***************************************************************************)
(* The steps of __setattr__ on d = [fields, heap, tensor_columns,          *)
(* doc_columns]; every step returns [d, err]                               *)
(***************************************************************************)
Ok(d)        == [d |-> d, err |-> "none"]
Raise(d, e)  == [d |-> d, err |-> e]

\* object.__setattr__(self, name, v)
object_setattr(d, name, v) == [d EXCEPT !.fields[name] = v]

\* pydantic's BaseModel.__setattr__: validate, then set
super_setattr(d, name, value) ==
    LET field_type == _get_field_type(name) IN
    IF ~Valid(field_type, value)
    THEN Raise(d, "ValidationError")
    ELSE IF is_type_tensor(field_type)
         THEN LET r == Alloc(d.heap) IN
              Ok([d EXCEPT !.heap = @ @@ (r :> Validate(field_type, value)),
                           !.fields[name] = r])
         ELSE Ok(object_setattr(d, name, Validate(field_type, value)))

\* document.py:116 and 132: revert the change
RevertChange_Missing(d, name, old_value) == d

RevertChange(d, name, old_value) == object_setattr(d, name, old_value)

\* document.py:114: after the copy the field keeps the old buffer
InplaceValue_Replaced(old_value, new_value) == new_value

InplaceValue(old_value, new_value) == old_value

\* document.py:113  old_value[:] = new_value
SliceAssign(d, old_value, new_value) ==
    IF Broadcastable(d.heap[new_value], d.heap[old_value])
    THEN Ok([d EXCEPT !.heap[old_value] =
                          Broadcast(d.heap[new_value], Len(d.heap[old_value]))])
    ELSE Raise(d, "ValueError")

\* document.py:104-122
TensorBranch(d, name, value) ==
    LET old_value == d.fields[name]
        s1        == super_setattr(d, name, value)
    IN  IF s1.err # "none" THEN s1
        ELSE LET new_value == s1.d.fields[name]
                 s2        == SliceAssign(s1.d, old_value, new_value)
             IN  IF s2.err # "none"
                 THEN Raise(RevertChange(s2.d, name, old_value), s2.err)
                 ELSE Ok(object_setattr(s2.d, name,
                                        InplaceValue(old_value, new_value)))

\* document.py:129  self._da_ref._doc_columns[name][self._da_index] = new_value
\* (column_ok: whether the stack accepts the document)
ColumnWrite(d, name, index, new_value, column_ok) ==
    IF column_ok
    THEN Ok([d EXCEPT !.doc_columns[name][index] = new_value])
    ELSE Raise(d, "ColumnError")

\* document.py:124-135; there is no return, so line 137 follows
DocBranch(d, name, index, value, column_ok) ==
    LET old_value == d.fields[name]
        s1        == super_setattr(d, name, value)
    IN  IF s1.err # "none" THEN s1
        ELSE LET new_value == s1.d.fields[name]
                 s2        == ColumnWrite(s1.d, name, index, new_value, column_ok)
             IN  IF s2.err # "none"
                 THEN Raise(RevertChange(s2.d, name, old_value), s2.err)
                 ELSE super_setattr(object_setattr(s2.d, name, new_value),
                                    name, value)

\* document.py:86-137
setattr(d, tf, names, ref, index, name, value, column_ok) ==
    LET field_type == _get_field_type(name) IN
    IF ref # "None" /\ name \in names
    THEN IF tf /\ IsTensorFlowWrite(field_type, value)
         THEN Raise(d, "RuntimeError")
         ELSE IF is_type_tensor(field_type)
              THEN TensorBranch(d, name, value)
              ELSE IF field_type = "BaseDocument"
                   THEN DocBranch(d, name, index, value, column_ok)
                   ELSE super_setattr(d, name, value)
    ELSE super_setattr(d, name, value)

(***************************************************************************)
(* State of the document and of the stack it may be bound to               *)
(***************************************************************************)
DocState == [fields |-> fields, heap |-> heap,
             tensor_columns |-> tensor_columns, doc_columns |-> doc_columns]

NoAssignment == [op |-> "none", name |-> "", value |-> [kind |-> "object", data |-> <<>>],
                 column_ok |-> TRUE, pre |-> <<>>, err |-> "none"]

DocInit ==
    /\ tf_available \in BOOLEAN
    /\ schema \in DocumentTypes(tf_available)
    /\ da_ref \in {"None", "store"}
    /\ da_index \in (IF da_ref = "store" THEN 1..NDocs ELSE {0})
    /\ \E n \in 1..MaxLen :
         LET zeros == [i \in 1..n |-> 0]
             doc   == [kind |-> "doc", data |-> <<0>>]
             int   == [kind |-> "int", data |-> <<0>>]
         IN
         IF da_ref = "store"
         THEN \* the stack owns one buffer per row; the document's tensor field
              \* is the view of its row
              /\ tensor_columns =
                   [name \in TensorFields(schema) |-> [i \in 1..NDocs |-> i]]
              /\ heap = [r \in 1..NDocs |-> zeros]
              /\ doc_columns = [name \in {"nested"} |-> [i \in 1..NDocs |-> doc]]
              /\ fields = [name \in schema |->
                     IF is_type_tensor(_get_field_type(name))
                     THEN tensor_columns[name][da_index]
                     ELSE IF name = "nested" THEN doc_columns[name][da_index]
                     ELSE int]
         ELSE /\ tensor_columns = [name \in {} |-> <<>>]
              /\ doc_columns = [name \in {} |-> <<>>]
              /\ heap = [r \in {1} |-> zeros]
              /\ fields = [name \in schema |->
                     IF is_type_tensor(_get_field_type(name)) THEN 1
                     ELSE IF name = "nested" THEN doc
                     ELSE int]
    /\ last = NoAssignment

\* doc.name = value
SetAttr ==
    \E name \in schema, value \in Values(tf_available),
       column_ok \in BOOLEAN :
        /\ (name # "nested" => column_ok)
        /\ LET r == setattr(DocState, tf_available, schema, da_ref, da_index,
                            name, value, column_ok)
               d == Collect(r.d)
           IN
            /\ fields' = d.fields
            /\ heap' = d.heap
            /\ tensor_columns' = d.tensor_columns
            /\ doc_columns' = d.doc_columns
            /\ last' = [op |-> "setattr", name |-> name, value |-> value,
                        column_ok |-> column_ok, pre |-> DocState,
                        err |-> r.err]
            /\ UNCHANGED <<tf_available, schema, da_ref, da_index>>
            /\ UNCHANGED redisVars

(***************************************************************************)
(* RedisDocumentIndex.  Optional Python values are sequences of length at  *)
(* most one: <<>> is None (or an absent key), <<v>> is the value v.        *)
(***************************************************************************)
None == <<>>

Some(v) == <<v>>

\* no _index is under way
NoGenerator ==
    [running |-> FALSE, column_to_data |-> [keys |-> <<>>, data |-> <<>>],
     row |-> 1, yielded |-> 0, ids |-> <<>>]

\* Python truthiness of an optional integer and of an optional string
Truthy(x) == x # None /\ x[1] # 0

TruthyStr(x) == x # None /\ x[1] # ""

\* a or b
PyOr(a, b) == IF Truthy(a) THEN a ELSE b

PyOrStr(a, b) == IF TruthyStr(a) THEN a ELSE b

\* str.upper() on the names the model uses
Upper(str) ==
    CASE str = "cosine"    -> "COSINE"
      [] str = "l2"        -> "L2"
      [] str = "ip"        -> "IP"
      [] str = "manhattan" -> "MANHATTAN"
      [] str = "flat"      -> "FLAT"
      [] str = "hnsw"      -> "HNSW"
      [] str = "annoy"     -> "ANNOY"
      [] str = "bm25"      -> "BM25"
      [] str = "tfidf"     -> "TFIDF"
      [] str = "okapi"     -> "OKAPI"
      [] OTHER             -> str

VALID_DISTANCES == {"L2", "IP", "COSINE"}

VALID_ALGORITHMS == {"FLAT", "HNSW"}

VALID_TEXT_SCORERS ==
    {"BM25", "TFIDF", "TFIDF.DOCNORM", "DISMAX", "DOCSCORE", "HAMMING"}

\* f with key k set to v
Put(f, k, v) == [x \in (DOMAIN f) \cup {k} |-> IF x = k THEN v ELSE f[x]]

(***************************************************************************)
(* The server: FT.INFO, FT.CREATE                                          *)
(***************************************************************************)
\* self._client.ft(index_name).info() raises when there is no such index
FtInfoRaises(indexes, index_name) == index_name \notin DOMAIN indexes

\* self._client.ft(index_name).create_index(schema, definition)
FtCreate(indexes, index_name, fields_schema, prefix) ==
    IF index_name \in DOMAIN indexes
    THEN [indexes |-> indexes, err |-> "ResponseError"]
    ELSE [indexes |-> Put(indexes, index_name,
                          [schema |-> fields_schema, prefix |-> prefix]),
          err |-> "none"]

(***************************************************************************)
(* _check_index_exists and _create_index                                   *)
(***************************************************************************)
\* redis.py:153-166
_check_index_exists_Never(indexes, index_name) == FALSE

_check_index_exists(indexes, index_name) ==
    ~FtInfoRaises(indexes, index_name)

InfoCall(index_name) == [op |-> "ft.info", name |-> index_name]

CreateCall(index_name) == [op |-> "ft.create_index", name |-> index_name]

\* redis.py:110-121: the attributes of a vector field, falsy values dropped
VectorAttributes(info, space) ==
    LET attributes ==
            [n \in {"TYPE", "DIM", "DISTANCE_METRIC", "EF_CONSTRUCTION",
                    "EF_RUNTIME", "M", "INITIAL_CAP"} |->
                CASE n = "TYPE"            -> Some("FLOAT32")
                  [] n = "DIM"             -> PyOr(info.n_dim, info.config.dim)
                  [] n = "DISTANCE_METRIC" -> Some(space)
                  [] n = "EF_CONSTRUCTION" -> info.config.ef_construction
                  [] n = "EF_RUNTIME"      -> info.config.ef_runtime
                  [] n = "M"               -> info.config.m
                  [] n = "INITIAL_CAP"     -> info.config.initial_cap]
        truthy(n) == IF n \in {"TYPE", "DISTANCE_METRIC"}
                     THEN TruthyStr(attributes[n])
                     ELSE Truthy(attributes[n])
    IN  [n \in {m \in DOMAIN attributes : truthy(m)} |-> attributes[n][1]]

NoAttributes == [n \in {} |-> 0]

\* redis.py:102-137: the field of one column, or the error it raises
ColumnField(info) ==
    IF info.db_type = "VectorField"
    THEN LET space == PyOrStr(info.config.space, info.config.distance) IN
         IF space = None
         THEN [err |-> "AttributeError"]
         ELSE IF Upper(space[1]) \notin VALID_DISTANCES
         THEN [err |-> "ValueError"]
         ELSE IF Upper(info.config.algorithm) \notin VALID_ALGORITHMS
         THEN [err |-> "ValueError"]
         ELSE [err |-> "none",
               field |-> [name |-> "$." \o info.name, as_name |-> info.name,
                          type |-> "VectorField",
                          algorithm |-> Upper(info.config.algorithm),
                          attributes |-> VectorAttributes(info, Upper(space[1]))]]
    ELSE [err |-> "none",
          field |-> [name |-> "$." \o info.name, as_name |-> info.name,
                     type |-> info.db_type, algorithm |-> "",
                     attributes |-> NoAttributes]]

\* redis.py:100-137: the loop over self._column_infos
RECURSIVE BuildSchema(_, _, _)
BuildSchema(column_infos, i, fields_schema) ==
    IF i > Len(column_infos)
    THEN [err |-> "none", schema |-> fields_schema]
    ELSE LET f == ColumnField(column_infos[i]) IN
         IF f.err # "none"
         THEN [err |-> f.err, schema |-> fields_schema]
         ELSE BuildSchema(column_infos, i + 1, Append(fields_schema, f.field))

\* redis.py:97-151; returns the server's indexes, the calls made, the error
_create_index(indexes, db_config, prefix, column_infos) ==
    LET probe == <<InfoCall(db_config.index_name)>> IN
    IF ~_check_index_exists(indexes, db_config.index_name)
    THEN LET built == BuildSchema(column_infos, 1, <<>>) IN
         IF built.err # "none"
         THEN [indexes |-> indexes, calls |-> probe, err |-> built.err]
         ELSE LET made == FtCreate(indexes, db_config.index_name,
                                   built.schema, prefix)
              IN  [indexes |-> made.indexes,
                   calls |-> Append(probe, CreateCall(db_config.index_name)),
                   err |-> made.err]
    ELSE [indexes |-> indexes, calls |-> probe, err |-> "none"]

(***************************************************************************)
(* DBConfig and __init__                                                   *)
(***************************************************************************)
\* redis.py:222-229
DBConfig__post_init__(db_config) ==
    LET scorer == Upper(db_config.text_scorer) IN
    IF scorer \notin VALID_TEXT_SCORERS
    THEN [err |-> "ValueError", db_config |-> db_config]
    ELSE [err |-> "none", db_config |-> [db_config EXCEPT !.text_scorer = scorer]]

\* redis.py:92-95; uuid4().hex is some hex string
_random_name == "0f"

\* redis.py:77-78
ResolveName(db_config) ==
    IF db_config.index_name = ""
    THEN [db_config EXCEPT !.index_name = "index_name__" \o _random_name]
    ELSE db_config

NoIndex == [constructed |-> FALSE,
            db_config |-> [index_name |-> "", text_scorer |-> ""],
            prefix |-> "", column_infos |-> <<>>]

\* redis.py:72-90; index_name "" stands for None
__init__(indexes, db_config, column_infos) ==
    LET config  == ResolveName(db_config)
        prefix  == config.index_name \o ":"
        created == _create_index(indexes, config, prefix, column_infos)
    IN  [indexes |-> created.indexes, calls |-> created.calls,
         err |-> created.err,
         instance |-> [constructed |-> TRUE, db_config |-> config,
                    prefix |-> prefix, column_infos |-> column_infos]]

(***************************************************************************)
(* python_type_to_db_type.  A Python type is the set of the classes it is  *)
(* a subclass of, itself included.                                         *)
(***************************************************************************)
\* issubclass(python_type, py_type)
issubclass(python_type, py_type) == py_type \in python_type

\* redis.py:250-258, in the order of the dict
type_map ==
    <<<<"int", "NumericField">>, <<"float", "NumericField">>,
      <<"str", "TextField">>, <<"bytes", "TextField">>,
      <<"ndarray", "VectorField">>, <<"list", "VectorField">>,
      <<"AbstractTensor", "VectorField">>>>

\* redis.py:260-263: the loop over type_map.items() from the i-th item on
RECURSIVE FirstMatch(_, _)
FirstMatch(python_type, i) ==
    IF i > Len(type_map)
    THEN [err |-> "ValueError", ret |-> ""]
    ELSE IF issubclass(python_type, type_map[i][1])
         THEN [err |-> "none", ret |-> type_map[i][2]]
         ELSE FirstMatch(python_type, i + 1)

\* redis.py:243-263
python_type_to_db_type(python_type) == FirstMatch(python_type, 1)

\* builtins, numpy and docarray types, and classes that derive from a
\* builtin and from AbstractTensor
PythonTypes ==
    {{"int"}, {"bool", "int"}, {"float"}, {"str"}, {"ID", "str"}, {"bytes"},
     {"ndarray"}, {"list"}, {"NdArray", "ndarray", "AbstractTensor"},
     {"TorchTensor", "AbstractTensor"}, {"dict"}, {"BaseDoc"},
     {"TextTensor", "str", "AbstractTensor"},
     {"IntTensor", "int", "AbstractTensor"},
     {"BytesTensor", "bytes", "AbstractTensor"}}

(***************************************************************************)
(* Inputs of the index life cycle                                             *)
(***************************************************************************)
IndexNames == {"", "a"}

Distances == {"COSINE", "l2", "MANHATTAN"}

Algorithms == {"FLAT", "hnsw", "ANNOY"}

Tunings == {None, Some(0), Some(16)}

DefaultVectorConfig ==
    [space |-> None, distance |-> Some("COSINE"), algorithm |-> "FLAT",
     dim |-> None, ef_construction |-> None, ef_runtime |-> None, m |-> None,
     initial_cap |-> None]

IdColumn == [name |-> "id", db_type |-> "TextField", n_dim |-> None,
             config |-> DefaultVectorConfig]

VectorColumn(name, n_dim, config) ==
    [name |-> name, db_type |-> "VectorField", n_dim |-> n_dim, config |-> config]

\* the configurations of a vector column: the default with one setting
\* changed
VectorConfigs ==
    {[DefaultVectorConfig EXCEPT !.distance = Some(d)] : d \in Distances}
    \cup {[DefaultVectorConfig EXCEPT !.space = Some(sp)] : sp \in {"ip", "okapi"}}
    \cup {[DefaultVectorConfig EXCEPT !.algorithm = a] : a \in Algorithms}
    \cup {[DefaultVectorConfig EXCEPT !.dim = Some(4)]}
    \cup {[DefaultVectorConfig EXCEPT !.ef_construction = e] : e \in Tunings}
    \cup {[DefaultVectorConfig EXCEPT !.m = m] : m \in Tunings}

\* the _column_infos of the document types: an id and one or two vectors
ColumnInfos ==
    {<<IdColumn, VectorColumn("embedding", Some(3), c)>> : c \in VectorConfigs}
    \cup
    {<<IdColumn, VectorColumn("embedding", None, c)>> :
        c \in {DefaultVectorConfig, [DefaultVectorConfig EXCEPT !.dim = Some(4)]}}
    \cup
    {<<VectorColumn("embedding", Some(3), DefaultVectorConfig), IdColumn,
       VectorColumn("other", Some(2), c)>> :
        c \in {[DefaultVectorConfig EXCEPT !.distance = Some("MANHATTAN")],
                [DefaultVectorConfig EXCEPT !.algorithm = "ANNOY"]}}

TextScorers == {"BM25", "tfidf", "OKAPI"}

DBConfigs == [index_name : IndexNames, text_scorer : TextScorers]

DefaultColumns == <<IdColumn, VectorColumn("embedding", Some(3), DefaultVectorConfig)>>

BadColumns ==
    <<IdColumn, VectorColumn("embedding", Some(3),
                    [DefaultVectorConfig EXCEPT !.distance = Some("MANHATTAN")])>>

\* the arguments of the constructor: every column configuration under the
\* name 'a' and the default scorer, two of them under the other settings
ConstructorArgs ==
    {<<c, i>> \in DBConfigs \X ColumnInfos :
        (c.index_name = "" \/ c.text_scorer # "BM25")
            => i \in {DefaultColumns, BadColumns}}

\* an index another client created
ForeignSchema == <<[name |-> "$.id", as_name |-> "id", type |-> "TextField",
                    algorithm |-> "", attributes |-> NoAttributes]>>

NoResult == [op |-> "none", err |-> "none"]

RedisIdle ==
    /\ redis_indexes = [n \in {} |-> 0]
    /\ redis_keys = [k \in {} |-> 0]
    /\ calls = <<>>
    /\ instance = NoIndex
    /\ builder = <<>>
    /\ result = NoResult
    /\ generator = NoGenerator

IndexInit ==
    /\ \E present \in SUBSET {"a", "index_name__" \o _random_name} :
         redis_indexes = [n \in present |->
                             [schema |-> ForeignSchema, prefix |-> n \o ":"]]
    /\ redis_keys = [k \in {} |-> 0]
    /\ calls = <<>>
    /\ instance = NoIndex
    /\ builder = <<>>
    /\ result = NoResult
    /\ generator = NoGenerator

(***************************************************************************)
(* Operations of the index life cycle                                         *)
(***************************************************************************)
\* instance = RedisDocumentIndex(db_config=DBConfig(...)); a constructor
\* that raises leaves no instance
Construct ==
    \E args \in ConstructorArgs :
        LET config  == args[1]
            column_infos == args[2]
            checked == DBConfig__post_init__(config)
            made    == __init__(redis_indexes, checked.db_config, column_infos)
            err     == IF checked.err # "none" THEN checked.err ELSE made.err
        IN  /\ redis_indexes' = IF checked.err # "none" THEN redis_indexes
                                ELSE made.indexes
            /\ calls' = IF checked.err # "none" THEN <<>> ELSE made.calls
            /\ instance' = IF err # "none" THEN NoIndex ELSE made.instance
            /\ result' = [op |-> "__init__", err |-> err,
                          db_config |-> config, column_infos |-> column_infos,
                          indexes_before |-> redis_indexes]
            /\ UNCHANGED <<redis_keys, builder>>
            /\ UNCHANGED <<docVars, generator>>

\* self._create_index() on an instance
CreateIndex ==
    /\ instance.constructed
    /\ LET created == _create_index(redis_indexes, instance.db_config, instance.prefix,
                                    instance.column_infos)
       IN  /\ redis_indexes' = created.indexes
           /\ calls' = created.calls
           /\ result' = [op |-> "_create_index", err |-> created.err,
                         db_config |-> instance.db_config,
                         column_infos |-> instance.column_infos,
                         indexes_before |-> redis_indexes]
    /\ UNCHANGED <<redis_keys, instance, builder>>
    /\ UNCHANGED <<docVars, generator>>

\* self._check_index_exists(index_name)
CheckIndexExists ==
    /\ instance.constructed
    /\ \E name \in {"a", "index_name__" \o _random_name, "b"} :
        /\ calls' = <<InfoCall(name)>>
        /\ result' = [op |-> "_check_index_exists", err |-> "none",
                      name |-> name,
                      ret |-> _check_index_exists(redis_indexes, name),
                      indexes_before |-> redis_indexes]
    /\ UNCHANGED <<redis_indexes, redis_keys, instance, builder>>
    /\ UNCHANGED <<docVars, generator>>

\* self.python_type_to_db_type(python_type)
PythonTypeToDbType ==
    /\ instance.constructed
    /\ \E python_type \in PythonTypes :
        LET mapped == python_type_to_db_type(python_type) IN
        /\ calls' = <<>>
        /\ result' = [op |-> "python_type_to_db_type", err |-> mapped.err,
                      python_type |-> python_type, ret |-> mapped.ret]
    /\ UNCHANGED <<redis_indexes, redis_keys, instance, builder>>
    /\ UNCHANGED <<docVars, generator>>

NextIndex == Construct \/ CreateIndex \/ CheckIndexExists \/ PythonTypeToDbType

(***************************************************************************)
(* Insertion.  A cell of a column is None, a string, a numpy array or a    *)
(* docarray tensor; what is stored is a string or a list of numbers.       *)
(***************************************************************************)
NoneCell      == [type |-> "NoneType", str |-> "", list |-> <<>>]

StrCell(str)  == [type |-> "str", str |-> str, list |-> <<>>]

NdarrayCell(l) == [type |-> "ndarray", str |-> "", list |-> l]

TensorCell(l) == [type |-> "NdArray", str |-> "", list |-> l]

IntCell(n)    == [type |-> "int", str |-> "", list |-> <<n>>]

JsonStr(str)  == [type |-> "str", str |-> str, list |-> <<>>]

JsonList(l)   == [type |-> "list", str |-> "", list |-> l]

\* numpy's astype(np.float32) on an integer below 2^25: 24 bits of mantissa,
\* round to nearest, ties to even
Float32(x) ==
    IF x <= 16777216 THEN x
    ELSE IF x % 2 = 0 THEN x
    ELSE IF ((x - 1) \div 2) % 2 = 0 THEN x - 1 ELSE x + 1

\* redis.py:286  not item
MissingId_NoneOnly(item) == item.type = "NoneType"

MissingId(item) == item.type = "NoneType" \/ (item.type = "str" /\ item.str = "")

\* redis.py:284  next(it, None) on the iterator of a column, row by row
NextCell(column, row) == IF row <= Len(column) THEN column[row] ELSE NoneCell

\* redis.py:289-294 with  elif item:  in the place of  elif item is not None:
WithCell_DropFalsy(item_dict, key, item) ==
    IF item.type = "NdArray"
    THEN Put(item_dict, key, JsonList(item.list))
    ELSE IF item.type = "ndarray"
    THEN Put(item_dict, key, JsonList([i \in 1..Len(item.list) |-> Float32(item.list[i])]))
    ELSE IF item.type # "NoneType" /\ item # StrCell("") /\ item # IntCell(0)
    THEN Put(item_dict, key, item)
    ELSE item_dict

\* redis.py:289-294: item_dict after the cell of one key
WithCell(item_dict, key, item) ==
    IF item.type = "NdArray"
    THEN Put(item_dict, key, JsonList(item.list))
    ELSE IF item.type = "ndarray"
    THEN Put(item_dict, key, JsonList([i \in 1..Len(item.list) |-> Float32(item.list[i])]))
    ELSE IF item.type # "NoneType"
    THEN Put(item_dict, key, item)
    ELSE item_dict

EmptyDict == [k \in {} |-> NoneCell]

\* redis.py:282-296: one turn of the while loop, the keys from the i-th on;
\* the generator returns or yields item_dict
RECURSIVE RowOf(_, _, _, _)
RowOf(column_to_data, row, i, item_dict) ==
    IF i > Len(column_to_data.keys)
    THEN [stop |-> FALSE, item |-> item_dict]
    ELSE LET key  == column_to_data.keys[i]
             item == NextCell(column_to_data.data[key], row)
         IN  IF key = "id" /\ MissingId(item)
             THEN [stop |-> TRUE, item |-> item_dict]
             ELSE RowOf(column_to_data, row, i + 1, WithCell(item_dict, key, item))

\* redis.py:265-296: the row-th item of the generator
_generate_item(column_to_data, row) == RowOf(column_to_data, row, 1, EmptyDict)

SetCall(key, item) == [op |-> "json.set", key |-> key, path |-> "$", item |-> item]

\* redis.py:307-312: the loop of _index from the row-th item on
RECURSIVE IndexFrom(_, _, _, _, _, _)
IndexFrom(prefix, keys, column_to_data, row, ids, made) ==
    LET next == _generate_item(column_to_data, row) IN
    IF next.stop
    THEN [keys |-> keys, calls |-> made, ret |-> ids, err |-> "none"]
    ELSE IF "id" \notin DOMAIN next.item
    THEN [keys |-> keys, calls |-> made, ret |-> <<>>, err |-> "KeyError"]
    ELSE LET id     == next.item["id"].str
             doc_id == prefix \o id
         IN  IndexFrom(prefix, Put(keys, doc_id, next.item), column_to_data,
                       row + 1, Append(ids, id),
                       Append(made, SetCall(doc_id, next.item)))

\* redis.py:298-312
_index(prefix, keys, column_to_data) ==
    IndexFrom(prefix, keys, column_to_data, 1, <<>>, <<>>)

(***************************************************************************)
(* Inputs of insertion                                                     *)
(***************************************************************************)
MaxRows == 3    \* longest column of a batch

SeqsUpTo(S, n) == UNION {[1..m -> S] : m \in 0..n}

\* id columns: any ids missing, or two different ids in any order
IdColumns ==
    SeqsUpTo({NoneCell, StrCell(""), StrCell("x")}, MaxRows)
        \cup SeqsUpTo({StrCell("x"), StrCell("y")}, MaxRows)

FullText == [i \in 1..MaxRows |-> StrCell("t")]

\* a text column: full, one row short, one row longer, or with a None
TextColumns ==
    {FullText, SubSeq(FullText, 1, MaxRows - 1), Append(FullText, StrCell("u")),
     [FullText EXCEPT ![1] = NoneCell]}

\* an embedding column: numpy arrays or docarray tensors, one number each
EmbeddingColumns ==
    {[i \in 1..MaxRows |-> NdarrayCell(<<16777217>>)],
     [i \in 1..MaxRows |-> TensorCell(<<i>>)]}

\* the id columns of the batches with other columns than a full text
FewIdColumns == SeqsUpTo({NoneCell, StrCell("x")}, MaxRows)

\* column_to_data: the keys in the order of the dict, and the columns
Batches ==
    {[keys |-> <<"id", "text">>, data |-> [id |-> ids, text |-> FullText]] :
        ids \in IdColumns}
    \cup
    {[keys |-> <<"text", "id">>, data |-> [id |-> ids, text |-> t]] :
        ids \in FewIdColumns, t \in TextColumns}
    \cup
    {[keys |-> <<"id", "embedding">>, data |-> [id |-> ids, embedding |-> e]] :
        ids \in FewIdColumns, e \in EmbeddingColumns}
    \cup
    {[keys |-> <<"text">>, data |-> [text |-> t]] : t \in TextColumns}

\* the instance RedisDocumentIndex(index_name='a') of a document type with
\* an id, a text and an embedding, its index created
TextColumn == [name |-> "text", db_type |-> "TextField", n_dim |-> None,
               config |-> DefaultVectorConfig]

ReadyColumns ==
    <<IdColumn, TextColumn,
      VectorColumn("embedding", Some(2),
                   [DefaultVectorConfig EXCEPT !.distance = Some("L2")])>>

ReadyInstance ==
    __init__([n \in {} |-> 0],
             DBConfig__post_init__([index_name |-> "a", text_scorer |-> "BM25"]).db_config,
             ReadyColumns)

InsertInit ==
    /\ redis_indexes = ReadyInstance.indexes
    /\ redis_keys = [k \in {} |-> 0]
    /\ calls = <<>>
    /\ instance = ReadyInstance.instance
    /\ builder = <<>>
    /\ result = NoResult
    /\ generator = NoGenerator

\* self._index(column_to_data)
Index ==
    \E column_to_data \in Batches :
        LET done == _index(instance.prefix, redis_keys, column_to_data) IN
        /\ redis_keys' = done.keys
        /\ calls' = done.calls
        /\ result' = [op |-> "_index", err |-> done.err, ret |-> done.ret,
                      column_to_data |-> column_to_data,
                      keys_before |-> redis_keys]
        /\ UNCHANGED <<redis_indexes, instance, builder>>
        /\ UNCHANGED <<docVars, generator>>

NextInsert == Index

(***************************************************************************)
(* The server: FT.SEARCH of a hybrid query                                 *)
(*   '<filter>=>[KNN <k> @<field> $vec AS vector_score]'                   *)
(* sorted by vector_score, paged (0, limit)                                *)
(***************************************************************************)
\* the keys of an index: those that start with its prefix
KeysOf(keys, prefix) ==
    {k \in DOMAIN keys :
        Len(k) >= Len(prefix) /\ SubSeq(k, 1, Len(prefix)) = prefix}

\* the filters of the model: everything, or a text field with a given word
Matches(doc, filter_query) ==
    \/ filter_query = "*"
    \/ /\ filter_query = "@text:t"
       /\ "text" \in DOMAIN doc
       /\ doc["text"].str = "t"

\* the squared L2 distance of two lists of numbers
RECURSIVE SquaredL2(_, _)
SquaredL2(u, v) ==
    IF u = <<>> THEN 0
    ELSE (u[1] - v[1]) * (u[1] - v[1]) + SquaredL2(Tail(u), Tail(v))

\* the inner product of two lists of numbers
RECURSIVE Dot(_, _)
Dot(u, v) ==
    IF u = <<>> THEN 0 ELSE u[1] * v[1] + Dot(Tail(u), Tail(v))

\* the vector_score of a document under the metric of the field: the
\* squared distance for L2, 1 - <u, v> for IP
Score(metric, doc, search_field, vec) ==
    IF metric = "IP"
    THEN 1 - Dot(doc[search_field].list, vec)
    ELSE SquaredL2(doc[search_field].list, vec)

\* the keys in S by ascending score, at most n of them
RECURSIVE Nearest(_, _, _, _, _, _)
Nearest(metric, keys, S, search_field, vec, n) ==
    IF S = {} \/ n = 0 THEN <<>>
    ELSE LET k == CHOOSE a \in S : \A b \in S :
                     Score(metric, keys[a], search_field, vec)
                         <= Score(metric, keys[b], search_field, vec)
         IN  <<k>> \o Nearest(metric, keys, S \ {k}, search_field, vec, n - 1)

\* the field of the index's schema with the given name, if any
SchemaField(indexes, index_name, name) ==
    SelectSeq(indexes[index_name].schema, LAMBDA f : f.as_name = name)

\* the DISTANCE_METRIC the field was created with
MetricOf(indexes, index_name, search_field) ==
    LET f == SchemaField(indexes, index_name, search_field) IN
    IF f # <<>> /\ f[1].type = "VectorField"
    THEN f[1].attributes["DISTANCE_METRIC"] ELSE "L2"

\* a filter the server cannot parse
SyntaxError(filter_query) == filter_query = "@"

\* the server refuses a query it cannot parse, a KNN on a field that is not
\* a vector field, and a vector that has not the DIM of the field
FtSearchRaises(indexes, index_name, filter_query, search_field, vec) ==
    LET f == SchemaField(indexes, index_name, search_field) IN
    \/ SyntaxError(filter_query)
    \/ f = <<>>
    \/ f[1].type # "VectorField"
    \/ "DIM" \notin DOMAIN f[1].attributes
    \/ f[1].attributes["DIM"] # Len(vec)

SearchCall(index_name, filter_query, search_field, vec, limit) ==
    [op |-> "ft.search", name |-> index_name, filter |-> filter_query,
     knn |-> limit, field |-> search_field, vec |-> vec,
     paging |-> <<0, limit>>]

\* the documents of the result, each with its vector_score
FtSearch(indexes, keys, index_name, filter_query, search_field, vec, limit) ==
    LET prefix  == indexes[index_name].prefix
        metric  == MetricOf(indexes, index_name, search_field)
        matched == {k \in KeysOf(keys, prefix) :
                       /\ Matches(keys[k], filter_query)
                       /\ search_field \in DOMAIN keys[k]
                       /\ Len(keys[k][search_field].list) = Len(vec)}
        found   == Nearest(metric, keys, matched, search_field, vec, limit)
    IN  [i \in 1..Len(found) |->
            [json |-> keys[found[i]],
             vector_score |-> Score(metric, keys[found[i]], search_field, vec)]]

(***************************************************************************)
(* QueryBuilder and execute_query                                          *)
(***************************************************************************)
\* helper._collect_query_args(method_name): a new builder with the call
\* appended to the queries of the old one
_collect_query_args(method_name, queries, kwargs) ==
    [err |-> "none", queries |-> Append(queries, <<method_name, kwargs>>)]

\* abstract._raise_not_composable(method_name)
_raise_not_composable(method_name, queries, kwargs) ==
    [err |-> "NotImplementedError", queries |-> queries]

\* redis.py:178-183
QueryBuilderMethod(method_name, queries, kwargs) ==
    IF method_name \in {"find", "filter"}
    THEN _collect_query_args(method_name, queries, kwargs)
    ELSE _raise_not_composable(method_name, queries, kwargs)

\* redis.py:174-176
build(queries) == queries

\* redis.py:371-375  components[component]: the values of one component
Component(query, component) ==
    SelectSeq(query, LAMBDA q : q[1] = component)

ComponentNames(query) == {query[i][1] : i \in 1..Len(query)}

\* redis.py:377-381
BadShape_TwoComponents(query) ==
    Cardinality(ComponentNames(query)) # 2

BadShape_OneFind(query) ==
    \/ Cardinality(ComponentNames(query)) # 2
    \/ Len(Component(query, "find")) # 1

BadShape(query) ==
    \/ Cardinality(ComponentNames(query)) # 2
    \/ Len(Component(query, "find")) # 1
    \/ Len(Component(query, "filter")) # 1

DefaultLimit == 10

\* redis.py:389-393  a.get('limit') or b.get('limit') or 10
ResolveLimit(find, filter) ==
    PyOr(PyOr(find.limit, filter.limit), Some(DefaultLimit))[1]

\* redis.py:415-420 with the filter left out of the query
HybridQuery_MatchAll(filter_query, search_field, limit) ==
    [filter |-> "*", knn |-> limit, field |-> search_field,
     paging |-> <<0, limit>>]

\* redis.py:415-420
\*   Query(f'{filter_query}=>[KNN {limit} @{search_field} $vec AS vector_score]')
\*       .sort_by('vector_score').paging(0, limit)
HybridQuery(filter_query, search_field, limit) ==
    [filter |-> filter_query, knn |-> limit, field |-> search_field,
     paging |-> <<0, limit>>]

\* redis.py:430-432 with the scores that are 0 dropped
VectorScores_Truthy(results) ==
    SelectSeq([i \in 1..Len(results) |-> results[i].vector_score],
              LAMBDA x : x # 0)

\* redis.py:430-432
VectorScores(results) == [i \in 1..Len(results) |-> results[i].vector_score]

\* redis.py:434-437  json.loads(out_doc.json) of every result
Documents(results) == [i \in 1..Len(results) |-> results[i].json]

\* redis.py:403-438; an error of the server's search surfaces as it is
_hybrid_search(indexes, keys, db_config, vec, filter_query, search_field, limit) ==
    LET redis_query == HybridQuery(filter_query, search_field, limit)
        search == <<SearchCall(db_config.index_name, redis_query.filter,
                               redis_query.field, vec, redis_query.knn)>>
    IN  IF FtSearchRaises(indexes, db_config.index_name, redis_query.filter,
                          redis_query.field, vec)
        THEN [err |-> "ResponseError", calls |-> search,
              documents |-> <<>>, scores |-> <<>>]
        ELSE LET results == FtSearch(indexes, keys, db_config.index_name,
                                     redis_query.filter, redis_query.field, vec,
                                     redis_query.knn)
             IN  [err |-> "none", calls |-> search,
                  documents |-> Documents(results),
                  scores |-> VectorScores(results)]

NoDocuments == [err |-> "none", calls |-> <<>>, documents |-> <<>>, scores |-> <<>>]

\* redis.py:364-401
execute_query(indexes, keys, db_config, query) ==
    IF BadShape(query)
    THEN [err |-> "ValueError", found |-> NoDocuments]
    ELSE IF Component(query, "filter") = <<>> \/ Component(query, "find") = <<>>
    THEN [err |-> "KeyError", found |-> NoDocuments]   \* components['filter']
    ELSE LET find   == Component(query, "find")[1][2]
             filter == Component(query, "filter")[1][2]
             found  == _hybrid_search(indexes, keys, db_config, find.query,
                                      filter.filter_query, find.search_field,
                                      ResolveLimit(find, filter))
         IN  [err |-> found.err, found |-> found]

(***************************************************************************)
(* Inputs of queries                                                       *)
(***************************************************************************)
MaxFragments == 3   \* longest query

Limits == {None, Some(0), Some(2)}

\* the keyword arguments of the builder's methods; limit None: not given
FindArgs == [query : {<<1, 0>>}, search_field : {"embedding"}, limit : Limits]

FilterArgs == [filter_query : {"*", "@text:t"}, limit : Limits]

TextSearchArgs == [query : {"t"}, search_field : {"text"}, limit : {None}]

StoredDoc(id, text, embedding) ==
    (("id" :> JsonStr(id)) @@ ("text" :> JsonStr(text)))
        @@ ("embedding" :> JsonList(embedding))

\* what a few insertions left on the server
StoredKeys ==
    (("a:x" :> StoredDoc("x", "t", <<1, 0>>))
        @@ ("a:y" :> StoredDoc("y", "u", <<0, 1>>)))
        @@ ("a:z" :> StoredDoc("z", "t", <<0, 0>>))

QueryInit ==
    /\ redis_indexes = ReadyInstance.indexes
    /\ redis_keys \in {[k \in {} |-> 0], StoredKeys}
    /\ calls = <<>>
    /\ instance = ReadyInstance.instance
    /\ builder = <<>>
    /\ result = NoResult
    /\ generator = NoGenerator

(***************************************************************************)
(* Operations of queries                                                   *)
(***************************************************************************)
\* builder = index.QueryBuilder(query)
NewBuilder ==
    \E query \in {<<>>} \cup {<<<<"text_search", a>>>> : a \in TextSearchArgs} :
        /\ builder' = query
        /\ calls' = <<>>
        /\ result' = [op |-> "QueryBuilder", err |-> "none"]
        /\ UNCHANGED <<redis_indexes, redis_keys, instance>>
        /\ UNCHANGED <<docVars, generator>>

\* builder = builder.<method_name>(**kwargs)
BuilderCall(method_name, Args) ==
    /\ Len(builder) < MaxFragments
    /\ \E kwargs \in Args :
        LET called == QueryBuilderMethod(method_name, builder, kwargs) IN
        /\ builder' = called.queries
        /\ calls' = <<>>
        /\ result' = [op |-> method_name, err |-> called.err,
                      kwargs |-> kwargs, queries_before |-> builder]
    /\ UNCHANGED <<redis_indexes, redis_keys, instance>>
    /\ UNCHANGED <<docVars, generator>>

Find == BuilderCall("find", FindArgs)

Filter == BuilderCall("filter", FilterArgs)

TextSearch == BuilderCall("text_search", TextSearchArgs)

\* index.execute_query(builder.build())
ExecuteQuery ==
    LET query == build(builder)
        done  == execute_query(redis_indexes, redis_keys, instance.db_config, query)
    IN  /\ calls' = done.found.calls
        /\ result' = [op |-> "execute_query", err |-> done.err, query |-> query,
                      documents |-> done.found.documents,
                      scores |-> done.found.scores]
        /\ UNCHANGED <<redis_indexes, redis_keys, instance, builder>>
        /\ UNCHANGED <<docVars, generator>>

NextQuery == NewBuilder \/ Find \/ Filter \/ TextSearch \/ ExecuteQuery

(***************************************************************************)
(* The server: EXISTS, DEL, JSON.GET                                       *)
(***************************************************************************)
ExistsCall(key) == [op |-> "exists", key |-> key]

DeleteCall(doc_ids) == [op |-> "delete", keys |-> doc_ids]

GetCall(key) == [op |-> "json.get", key |-> key]

Range(seq) == {seq[i] : i \in 1..Len(seq)}

\* self._client.delete(*names): the keys that are there are removed, the
\* others ignored
Delete(keys, names) == [k \in (DOMAIN keys) \ Range(names) |-> keys[k]]

\* self._client.json().get(name): the document, or None
JsonGet(keys, name) == IF name \in DOMAIN keys THEN Some(keys[name]) ELSE None

(***************************************************************************)
(* _del_items, _doc_exists, _get_items                                     *)
(***************************************************************************)
\* redis.py:333-340
_doc_exists_Always(prefix, keys, doc_id) == TRUE

_doc_exists(prefix, keys, doc_id) == (prefix \o doc_id) \in DOMAIN keys

\* redis.py:323-331 with a delete() of the first id found only
_del_items_FirstOnly(prefix, keys, ids) ==
    LET present == SelectSeq(ids, LAMBDA id : _doc_exists(prefix, keys, id))
        doc_ids == [i \in 1..Len(present) |-> prefix \o present[i]]
        probes  == [i \in 1..Len(ids) |-> ExistsCall(prefix \o ids[i])]
    IN  IF doc_ids # <<>>
        THEN [keys |-> Delete(keys, <<doc_ids[1]>>),
              calls |-> Append(probes, DeleteCall(<<doc_ids[1]>>)), err |-> "none"]
        ELSE [keys |-> keys, calls |-> probes, err |-> "none"]

\* redis.py:323-331; one exists() per id, then at most one delete()
_del_items(prefix, keys, ids) ==
    LET present == SelectSeq(ids, LAMBDA id : _doc_exists(prefix, keys, id))
        doc_ids == [i \in 1..Len(present) |-> prefix \o present[i]]
        probes  == [i \in 1..Len(ids) |-> ExistsCall(prefix \o ids[i])]
    IN  IF doc_ids # <<>>
        THEN [keys |-> Delete(keys, doc_ids),
              calls |-> Append(probes, DeleteCall(doc_ids)), err |-> "none"]
        ELSE [keys |-> keys, calls |-> probes, err |-> "none"]

\* redis.py:357  if doc: a dict is true when it has a key
TruthyDoc(doc) == doc # None /\ DOMAIN doc[1] # {}

\* redis.py:342-362 with a request that fails as soon as one id is missing
_get_items_AllOrNothing(prefix, keys, doc_ids) ==
    LET gets == [i \in 1..Len(doc_ids) |-> GetCall(prefix \o doc_ids[i])]
        got  == [i \in 1..Len(doc_ids) |-> JsonGet(keys, prefix \o doc_ids[i])]
    IN  IF \E i \in 1..Len(got) : ~TruthyDoc(got[i])
        THEN [ret |-> <<>>, calls |-> gets, err |-> "KeyError", named |-> doc_ids]
        ELSE [ret |-> [i \in 1..Len(got) |-> got[i][1]], calls |-> gets,
              err |-> "none", named |-> <<>>]

\* redis.py:342-362; the KeyError names doc_ids
_get_items(prefix, keys, doc_ids) ==
    IF doc_ids = <<>>
    THEN [ret |-> <<>>, calls |-> <<>>, err |-> "none", named |-> <<>>]
    ELSE LET gets  == [i \in 1..Len(doc_ids) |-> GetCall(prefix \o doc_ids[i])]
             got   == [i \in 1..Len(doc_ids) |->
                          JsonGet(keys, prefix \o doc_ids[i])]
             found == SelectSeq(got, TruthyDoc)
             docs  == [i \in 1..Len(found) |-> found[i][1]]
         IN  IF Len(docs) = 0
             THEN [ret |-> <<>>, calls |-> gets, err |-> "KeyError",
                   named |-> doc_ids]
             ELSE [ret |-> docs, calls |-> gets, err |-> "none", named |-> <<>>]

(***************************************************************************)
(* Inputs of the store                                                     *)
(***************************************************************************)
MaxIds == 2     \* longest list of ids of a request

\* 'z' is never inserted
IdLists == SeqsUpTo({"x", "y", "z"}, MaxIds)

\* a document of the type {id, text, num, embedding}, as the cells of its row
DocCells(id, text, num, embedding) ==
    [id |-> StrCell(id), text |-> text, num |-> num, embedding |-> embedding]

PlainDoc(id) == DocCells(id, StrCell("t"), IntCell(1), TensorCell(<<1, 0>>))

\* the plain document with one field changed: None, a falsy value, a numpy
\* array that float32 cannot hold exactly
DocsOf(id) ==
    {PlainDoc(id)}
    \cup {[PlainDoc(id) EXCEPT !.text = t] : t \in {NoneCell, StrCell("")}}
    \cup {[PlainDoc(id) EXCEPT !.num = n] : n \in {NoneCell, IntCell(0)}}
    \cup {[PlainDoc(id) EXCEPT !.embedding = e] :
            e \in {NoneCell, NdarrayCell(<<>>), NdarrayCell(<<16777217, 0>>)}}

DocKeys == <<"id", "text", "num", "embedding">>

\* column_to_data of a list of documents
BatchOf(docs) ==
    [keys |-> DocKeys,
     data |-> [c \in Range(DocKeys) |-> [i \in 1..Len(docs) |-> docs[i][c]]]]

\* one document, or 'x' and 'y' together
DocBatches ==
    {BatchOf(<<d>>) : d \in DocsOf("x") \cup DocsOf("y")}
    \cup {BatchOf(<<PlainDoc("x"), d>>) : d \in {PlainDoc("y"), PlainDoc("x")}}

StoreInit == InsertInit

(***************************************************************************)
(* Operations of the store                                                 *)
(***************************************************************************)
\* self._index(column_to_data) with the documents of a DocList
IndexDocs ==
    \E column_to_data \in DocBatches :
        LET done == _index(instance.prefix, redis_keys, column_to_data) IN
        /\ redis_keys' = done.keys
        /\ calls' = done.calls
        /\ result' = [op |-> "_index", err |-> done.err, ret |-> done.ret,
                      column_to_data |-> column_to_data,
                      keys_before |-> redis_keys]
        /\ UNCHANGED <<redis_indexes, instance, builder>>
        /\ UNCHANGED <<docVars, generator>>

\* self._del_items(doc_ids)
DelItems ==
    \E doc_ids \in IdLists :
        LET done == _del_items(instance.prefix, redis_keys, doc_ids) IN
        /\ redis_keys' = done.keys
        /\ calls' = done.calls
        /\ result' = [op |-> "_del_items", err |-> done.err,
                      doc_ids |-> doc_ids, keys_before |-> redis_keys]
        /\ UNCHANGED <<redis_indexes, instance, builder>>
        /\ UNCHANGED <<docVars, generator>>

\* self._get_items(doc_ids)
GetItems ==
    \E doc_ids \in IdLists :
        LET done == _get_items(instance.prefix, redis_keys, doc_ids) IN
        /\ calls' = done.calls
        /\ result' = [op |-> "_get_items", err |-> done.err, ret |-> done.ret,
                      named |-> done.named, doc_ids |-> doc_ids,
                      keys_before |-> redis_keys]
        /\ UNCHANGED <<redis_indexes, redis_keys, instance, builder>>
        /\ UNCHANGED <<docVars, generator>>

NextStore == IndexDocs \/ DelItems \/ GetItems

(***************************************************************************)
(* The server: FT.SEARCH of a filter and of a text query                   *)
(***************************************************************************)
\* some n elements of S (all of S when it has fewer), in the server's order
RECURSIVE InOrder(_, _)
InOrder(S, n) ==
    IF S = {} \/ n = 0 THEN <<>>
    ELSE LET k == CHOOSE a \in S : TRUE IN <<k>> \o InOrder(S \ {k}, n - 1)

FilterCall(index_name, filter_query, limit) ==
    [op |-> "ft.search", name |-> index_name, filter |-> filter_query,
     paging |-> <<0, limit>>]

\* Query(filter_query).paging(0, limit): the documents of the result
FtFilter(indexes, keys, index_name, filter_query, limit) ==
    LET prefix  == indexes[index_name].prefix
        matched == {k \in KeysOf(keys, prefix) : Matches(keys[k], filter_query)}
        found   == InOrder(matched, limit)
    IN  [i \in 1..Len(found) |-> [json |-> keys[found[i]]]]

\* str.split(' ') on the queries of the model
Split(query) ==
    CASE query = "t u" -> <<"t", "u">>
      [] query = "u t" -> <<"u", "t">>
      [] OTHER         -> <<query>>

\* '|'.join(words)
RECURSIVE Join(_)
Join(words) ==
    IF Len(words) = 1 THEN words[1]
    ELSE words[1] \o "|" \o Join(Tail(words))

\* the terms of '@<field>:<term1>|<term2>|...', as the server reads them
TermsOf(query_string, search_field) ==
    CASE query_string = "@" \o search_field \o ":t"   -> <<"t">>
      [] query_string = "@" \o search_field \o ":u"   -> <<"u">>
      [] query_string = "@" \o search_field \o ":t|u" -> <<"t", "u">>
      [] query_string = "@" \o search_field \o ":u|t" -> <<"u", "t">>
      [] OTHER                                         -> <<>>

\* the relevance of a document: the terms of the query its text holds
TextScore(doc, search_field, terms) ==
    Cardinality({i \in 1..Len(terms) :
                    search_field \in DOMAIN doc /\ doc[search_field].str = terms[i]})

\* the keys in S by descending relevance, at most n of them
RECURSIVE MostRelevant(_, _, _, _, _)
MostRelevant(keys, S, search_field, terms, n) ==
    IF S = {} \/ n = 0 THEN <<>>
    ELSE LET k == CHOOSE a \in S : \A b \in S :
                     TextScore(keys[a], search_field, terms)
                         >= TextScore(keys[b], search_field, terms)
         IN  <<k>> \o MostRelevant(keys, S \ {k}, search_field, terms, n - 1)

TextCall(index_name, query_string, scorer, limit) ==
    [op |-> "ft.search", name |-> index_name, query |-> query_string,
     scorer |-> scorer, with_scores |-> TRUE, paging |-> <<0, limit>>]

\* Query('@field:terms').scorer(...).with_scores().paging(0, limit): the
\* documents of the result, each with its score
FtTextSearch(indexes, keys, index_name, query_string, search_field, limit) ==
    LET prefix  == indexes[index_name].prefix
        terms   == TermsOf(query_string, search_field)
        matched == {k \in KeysOf(keys, prefix) :
                       TextScore(keys[k], search_field, terms) > 0}
        found   == MostRelevant(keys, matched, search_field, terms, limit)
    IN  [i \in 1..Len(found) |->
            [json |-> keys[found[i]],
             score |-> TextScore(keys[found[i]], search_field, terms)]]

(***************************************************************************)
(* _find, _filter, _text_search and their batched variants                 *)
(***************************************************************************)
\* redis.py:440-453
_find(indexes, keys, db_config, vec, limit, search_field) ==
    _hybrid_search(indexes, keys, db_config, vec, "*", search_field, limit)

\* redis.py:474-487
_filter(indexes, keys, db_config, filter_query, limit) ==
    LET search == <<FilterCall(db_config.index_name, filter_query, limit)>> IN
    IF SyntaxError(filter_query)
    THEN [err |-> "ResponseError", calls |-> search, documents |-> <<>>,
          scores |-> <<>>]
    ELSE LET results == FtFilter(indexes, keys, db_config.index_name,
                                 filter_query, limit)
         IN  [err |-> "none", calls |-> search,
              documents |-> [i \in 1..Len(results) |-> results[i].json],
              scores |-> <<>>]

\* redis.py:504-531
_text_search(indexes, keys, db_config, query, limit, search_field) ==
    LET query_str == Join(Split(query))
        q         == "@" \o search_field \o ":" \o query_str
        search    == <<TextCall(db_config.index_name, q, db_config.text_scorer,
                                limit)>>
    IN  IF TermsOf(q, search_field) = <<>>
        THEN [err |-> "ResponseError", calls |-> search, documents |-> <<>>,
              scores |-> <<>>]
        ELSE LET results == FtTextSearch(indexes, keys, db_config.index_name, q,
                                         search_field, limit)
             IN  [err |-> "none", calls |-> search,
                  documents |-> [i \in 1..Len(results) |-> results[i].json],
                  scores |-> [i \in 1..Len(results) |-> results[i].score]]

NoBatch == [err |-> "none", calls |-> <<>>, documents |-> <<>>, scores |-> <<>>]

\* a single query that raises ends the loop: nothing catches its error
Raised_Never(results) == FALSE

Raised(results) == results.err # "none"

\* redis.py:466-472, 499-502, 544-552: the loop of a batched variant from
\* the j-th query on; runs[j] is what the single query of input j does when
\* the loop gets to it
RECURSIVE BatchFrom(_, _, _)
BatchFrom(runs, j, done) ==
    IF j > Len(runs) THEN done
    ELSE LET results == runs[j] IN
         IF Raised(results)
         THEN [err |-> results.err, calls |-> done.calls \o results.calls,
               documents |-> <<>>, scores |-> <<>>]
         ELSE BatchFrom(runs, j + 1,
                        [err |-> "none", calls |-> done.calls \o results.calls,
                         documents |-> Append(done.documents, results.documents),
                         scores |-> Append(done.scores, results.scores)])

\* redis.py:455-472
_find_batched(indexes, keys, db_config, queries, limit, search_field) ==
    BatchFrom([j \in 1..Len(queries) |->
                  _find(indexes, keys, db_config, queries[j], limit, search_field)],
              1, NoBatch)

\* redis.py:489-502; the result is the list of the lists of documents
_filter_batched(indexes, keys, db_config, filter_queries, limit) ==
    BatchFrom([j \in 1..Len(filter_queries) |->
                  _filter(indexes, keys, db_config, filter_queries[j], limit)],
              1, NoBatch)

\* redis.py:533-552
_text_search_batched(indexes, keys, db_config, queries, limit, search_field) ==
    BatchFrom([j \in 1..Len(queries) |->
                  _text_search(indexes, keys, db_config, queries[j], limit,
                               search_field)],
              1, NoBatch)

(***************************************************************************)
(* Inputs of searches                                                      *)
(***************************************************************************)
MaxBatch == 2   \* longest list of queries of a batched search

\* query vectors; the last has not the dimension of the field
QueryVectors == {<<1, 0>>, <<0, 1>>, <<1>>}

SearchLimits == {0, 1, 2}

\* everything, a word, a word no document has, a query that does not parse
FilterQueries == {"*", "@text:t", "@text:v", "@"}

\* a word, two words, an empty query
TextQueries == {"t", "t u", ""}

\* the store of StoredKeys and a document whose vector is twice the one of 'x'
LongerKeys == StoredKeys @@ ("a:w" :> StoredDoc("w", "u", <<2, 0>>))

\* the instance of an index whose embedding has the given metric
SearchInstance(distance) ==
    __init__([n \in {} |-> 0],
             DBConfig__post_init__([index_name |-> "a", text_scorer |-> "BM25"]).db_config,
             <<IdColumn, TextColumn,
               VectorColumn("embedding", Some(2),
                            [DefaultVectorConfig EXCEPT !.distance = Some(distance)])>>)

\* queries as QueryBuilder.build() returns them: one find, one filter
BuiltQueries ==
    {<<<<"find", f>>, <<"filter", g>>>> :
        f \in [query : QueryVectors, search_field : {"embedding"},
               limit : {None, Some(0), Some(1)}],
        g \in [filter_query : {"*", "@text:v"}, limit : {None}]}
    \cup
    {<<<<"find", [query |-> <<1, 0>>, search_field |-> "embedding",
                  limit |-> Some(l)]>>,
       <<"filter", [filter_query |-> "*", limit |-> Some(l)]>>>> :
        l \in SearchLimits}

SearchInit ==
    /\ \E distance \in {"L2", "IP"} :
         /\ redis_indexes = SearchInstance(distance).indexes
         /\ instance = SearchInstance(distance).instance
    /\ redis_keys \in {[k \in {} |-> 0], StoredKeys, LongerKeys}
    /\ calls = <<>>
    /\ builder = <<>>
    /\ result = NoResult
    /\ generator = NoGenerator

(***************************************************************************)
(* Operations of searches                                                  *)
(***************************************************************************)
\* what an operation that searches leaves behind
Searched(op, args, done) ==
    /\ calls' = done.calls
    /\ result' = [op |-> op, err |-> done.err, args |-> args,
                  documents |-> done.documents, scores |-> done.scores]
    /\ UNCHANGED <<redis_indexes, redis_keys, instance, builder>>
    /\ UNCHANGED <<docVars, generator>>

\* self._hybrid_search(query, filter_query, search_field, limit)
HybridSearch ==
    \E query \in QueryVectors, filter_query \in FilterQueries,
       limit \in SearchLimits :
        Searched("_hybrid_search",
                 [query |-> query, filter_query |-> filter_query,
                  search_field |-> "embedding", limit |-> limit],
                 _hybrid_search(redis_indexes, redis_keys, instance.db_config,
                                query, filter_query, "embedding", limit))

\* self._find(query, limit, search_field)
FindDocs ==
    \E query \in QueryVectors, limit \in SearchLimits :
        Searched("_find",
                 [query |-> query, search_field |-> "embedding", limit |-> limit],
                 _find(redis_indexes, redis_keys, instance.db_config, query,
                       limit, "embedding"))

\* self._filter(filter_query, limit)
FilterDocs ==
    \E filter_query \in FilterQueries, limit \in SearchLimits :
        Searched("_filter", [filter_query |-> filter_query, limit |-> limit],
                 _filter(redis_indexes, redis_keys, instance.db_config,
                         filter_query, limit))

\* self._text_search(query, limit, search_field)
TextSearchDocs ==
    \E query \in TextQueries, limit \in SearchLimits :
        Searched("_text_search",
                 [query |-> query, search_field |-> "text", limit |-> limit],
                 _text_search(redis_indexes, redis_keys, instance.db_config,
                              query, limit, "text"))

\* self.execute_query(query) with a query that was built before
ExecuteBuilt ==
    \E query \in BuiltQueries :
        LET done == execute_query(redis_indexes, redis_keys, instance.db_config,
                                  query)
        IN  Searched("execute_query", [query |-> query],
                     [done.found EXCEPT !.err = done.err])

\* self._find_batched(queries, limit, search_field)
FindBatched ==
    \E queries \in SeqsUpTo(QueryVectors, MaxBatch), limit \in {1, 2} :
        Searched("_find_batched",
                 [queries |-> queries, search_field |-> "embedding",
                  limit |-> limit],
                 _find_batched(redis_indexes, redis_keys, instance.db_config,
                               queries, limit, "embedding"))

\* self._filter_batched(filter_queries, limit)
FilterBatched ==
    \E queries \in SeqsUpTo(FilterQueries \ {"@text:v"}, MaxBatch),
       limit \in {1, 2} :
        Searched("_filter_batched", [queries |-> queries, limit |-> limit],
                 _filter_batched(redis_indexes, redis_keys, instance.db_config,
                                 queries, limit))

\* self._text_search_batched(queries, limit, search_field)
TextSearchBatched ==
    \E queries \in SeqsUpTo(TextQueries, MaxBatch), limit \in {1, 2} :
        Searched("_text_search_batched",
                 [queries |-> queries, search_field |-> "text", limit |-> limit],
                 _text_search_batched(redis_indexes, redis_keys,
                                      instance.db_config, queries, limit, "text"))

NextSearch ==
    \/ HybridSearch \/ FindDocs \/ FilterDocs \/ TextSearchDocs \/ ExecuteBuilt
    \/ FindBatched \/ FilterBatched \/ TextSearchBatched

(***************************************************************************)
(* Two indexes on one server                                               *)
(***************************************************************************)
\* index names and document ids are any strings; these hold the separator
SharedNames == {"a", "a:b"}

SharedIds == {"x", "b:x"}

SharedIdLists == SeqsUpTo(SharedIds, MaxIds)

\* RedisDocumentIndex(index_name=name) on a server with the given indexes
SharedInstance(indexes, name) ==
    __init__(indexes,
             DBConfig__post_init__([index_name |-> name, text_scorer |-> "BM25"]).db_config,
             ReadyColumns)

SharedDocs ==
    {DocCells(id, StrCell(t), IntCell(1), TensorCell(<<1, 0>>)) :
        id \in SharedIds, t \in {"t", "u"}}

SharedInit ==
    /\ redis_indexes =
          SharedInstance(SharedInstance([n \in {} |-> 0], "a").indexes, "a:b").indexes
    /\ \E name \in SharedNames :
          instance = SharedInstance(redis_indexes, name).instance
    /\ redis_keys = [k \in {} |-> 0]
    /\ calls = <<>>
    /\ builder = <<>>
    /\ result = NoResult
    /\ generator = NoGenerator

\* the program goes on with the instance of the other index
Connect ==
    \E name \in SharedNames :
        LET made == SharedInstance(redis_indexes, name) IN
        /\ redis_indexes' = made.indexes
        /\ instance' = made.instance
        /\ calls' = made.calls
        /\ result' = [op |-> "__init__", err |-> made.err, name |-> name]
        /\ UNCHANGED <<redis_keys, builder>>
        /\ UNCHANGED <<docVars, generator>>

\* self._index(column_to_data) of one document
IndexShared ==
    \E doc \in SharedDocs :
        LET done == _index(instance.prefix, redis_keys, BatchOf(<<doc>>)) IN
        /\ redis_keys' = done.keys
        /\ calls' = done.calls
        /\ result' = [op |-> "_index", err |-> done.err, ret |-> done.ret,
                      doc_ids |-> <<doc.id.str>>, keys_before |-> redis_keys]
        /\ UNCHANGED <<redis_indexes, instance, builder>>
        /\ UNCHANGED <<docVars, generator>>

\* self._del_items(doc_ids)
DelShared ==
    \E doc_ids \in SharedIdLists :
        LET done == _del_items(instance.prefix, redis_keys, doc_ids) IN
        /\ redis_keys' = done.keys
        /\ calls' = done.calls
        /\ result' = [op |-> "_del_items", err |-> done.err, ret |-> <<>>,
                      doc_ids |-> doc_ids, keys_before |-> redis_keys]
        /\ UNCHANGED <<redis_indexes, instance, builder>>
        /\ UNCHANGED <<docVars, generator>>

\* self._get_items(doc_ids)
GetShared ==
    \E doc_ids \in SharedIdLists :
        LET done == _get_items(instance.prefix, redis_keys, doc_ids) IN
        /\ calls' = done.calls
        /\ result' = [op |-> "_get_items", err |-> done.err, ret |-> done.ret,
                      doc_ids |-> doc_ids, keys_before |-> redis_keys]
        /\ UNCHANGED <<redis_indexes, redis_keys, instance, builder>>
        /\ UNCHANGED <<docVars, generator>>

NextShared == Connect \/ IndexShared \/ DelShared \/ GetShared

(***************************************************************************)
(* _index, one turn of its loop at a time                                  *)
(***************************************************************************)
\* batches with the id column after the text column, and without one
GeneratorBatches ==
    {[keys |-> <<"text", "id">>, data |-> [id |-> ids, text |-> t]] :
        ids \in FewIdColumns, t \in TextColumns}
    \cup
    {[keys |-> <<"text">>, data |-> [text |-> t]] : t \in TextColumns}

\* redis.py:307-308: _index is called; ids = [], the generator is created
StartIndex ==
    /\ ~generator.running
    /\ \E column_to_data \in GeneratorBatches :
        /\ generator' = [running |-> TRUE, column_to_data |-> column_to_data,
                         row |-> 1, yielded |-> 0, ids |-> <<>>]
        /\ result' = [op |-> "_index", err |-> "none", ret |-> <<>>,
                      column_to_data |-> column_to_data,
                      keys_before |-> redis_keys]
    /\ calls' = <<>>
    /\ UNCHANGED <<redis_indexes, redis_keys, instance, builder>>
    /\ UNCHANGED docVars

\* redis.py:308-312 and 281-296: one turn of  for item in
\* self._generate_item(column_to_data);  the generator returns, and _index
\* returns ids, or it yields an item, and _index raises the KeyError of
\* item['id'] or writes the item
NextItem ==
    /\ generator.running
    /\ LET next == _generate_item(generator.column_to_data, generator.row) IN
       IF next.stop
       THEN /\ generator' = [generator EXCEPT !.running = FALSE]
            /\ result' = [result EXCEPT !.ret = generator.ids]
            /\ UNCHANGED <<redis_keys, calls>>
       ELSE IF "id" \notin DOMAIN next.item
       THEN /\ generator' = [generator EXCEPT !.running = FALSE,
                                              !.yielded = @ + 1]
            /\ result' = [result EXCEPT !.err = "KeyError"]
            /\ UNCHANGED <<redis_keys, calls>>
       ELSE LET id     == next.item["id"].str
                doc_id == instance.prefix \o id
            IN  /\ generator' = [generator EXCEPT !.row = @ + 1,
                                                  !.yielded = @ + 1,
                                                  !.ids = Append(@, id)]
                /\ redis_keys' = Put(redis_keys, doc_id, next.item)
                /\ calls' = Append(calls, SetCall(doc_id, next.item))
                /\ UNCHANGED result
    /\ UNCHANGED <<redis_indexes, instance, builder>>
    /\ UNCHANGED docVars

NextGenerate == StartIndex \/ NextItem

(***************************************************************************)
(* Specifications                                                          *)
(***************************************************************************)
InitDoc == DocInit /\ RedisIdle

NextDoc == SetAttr

SpecDoc == InitDoc /\ [][NextDoc]_vars

\* a document nobody assigns to
DocIdle ==
    /\ tf_available = FALSE
    /\ schema = {}
    /\ da_ref = "None"
    /\ da_index = 0
    /\ fields = [n \in {} |-> 0]
    /\ heap = <<>>
    /\ tensor_columns = [n \in {} |-> <<>>]
    /\ doc_columns = [n \in {} |-> <<>>]
    /\ last = NoAssignment

InitIndex == DocIdle /\ IndexInit

SpecIndex == InitIndex /\ [][NextIndex]_vars

InitInsert == DocIdle /\ InsertInit

SpecInsert == InitInsert /\ [][NextInsert]_vars

InitQuery == DocIdle /\ QueryInit

SpecQuery == InitQuery /\ [][NextQuery]_vars

InitStore == DocIdle /\ StoreInit

SpecStore == InitStore /\ [][NextStore]_vars

InitSearch == DocIdle /\ SearchInit

SpecSearch == InitSearch /\ [][NextSearch]_vars

InitShared == DocIdle /\ SharedInit

SpecShared == InitShared /\ [][NextShared]_vars

InitGenerate == DocIdle /\ InsertInit

SpecGenerate == InitGenerate /\ [][NextGenerate]_vars

\* a loop that can take a turn does take it
FairSpecGenerate == SpecGenerate /\ WF_vars(NextItem)

(***************************************************************************)
(* What the last assignment was about                                      *)
(***************************************************************************)
Assigned   == last.op = "setattr"
Bound      == da_ref = "store"
FieldType  == _get_field_type(last.name)
ValidatedX == Validate(FieldType, last.value)

\* the slot of the stack behind a field of the bound document, in state d;
\* a field that is neither a tensor nor a document has no column: the stack
\* keeps the document itself
Slot(d, name) ==
    IF is_type_tensor(_get_field_type(name))
    THEN d.heap[d.tensor_columns[name][da_index]]
    ELSE IF _get_field_type(name) = "BaseDocument"
         THEN d.doc_columns[name][da_index]
         ELSE d.fields[name]

\* getattr(doc, name) in state d
Read(d, name) ==
    IF is_type_tensor(_get_field_type(name))
    THEN d.heap[d.fields[name]]
    ELSE d.fields[name]

\* the step of the assignment that fails first
UnderlyingError ==
    IF tf_available /\ IsTensorFlowWrite(FieldType, last.value)
    THEN "RuntimeError"
    ELSE IF ~Valid(FieldType, last.value) THEN "ValidationError"
    ELSE IF is_type_tensor(FieldType) THEN "ValueError"
    ELSE "ColumnError"

(***************************************************************************)
(* C1  Binding consistency: after an assignment doc.field = x to a bound   *)
(* document returns without error, the slot of the stack for that field at *)
(* the document's row equals the validated x, and reading doc.field gives  *)
(* the validated x, whatever the kind of the field.                        *)
(***************************************************************************)
C1_BindingConsistency ==
    (Assigned /\ Bound /\ last.err = "none") =>
        /\ Slot(DocState, last.name) = ValidatedX
        /\ Read(DocState, last.name) = ValidatedX

(***************************************************************************)
(* C2  Rollback: when an assignment to a tensor or nested-document field   *)
(* of a bound document fails, the slot of the stack and the value read     *)
(* from the field are what they were before (nothing at all has changed),  *)
(* and the error that surfaces is the one of the step that failed.         *)
(***************************************************************************)
C2_Rollback ==
    (/\ Assigned /\ Bound
     /\ FieldType \in {"NdArray", "BaseDocument"}
     /\ last.err # "none") =>
        /\ Slot(DocState, last.name) = Slot(last.pre, last.name)
        /\ Read(DocState, last.name) = Read(last.pre, last.name)
        /\ DocState = last.pre
        /\ last.err = UnderlyingError

\* a failed in-place copy and a refused column write have both happened
C2_Witness ==
    /\ Assigned /\ Bound
    /\ \/ last.name = "tensor" /\ last.err = "ValueError"
       \/ last.name = "nested" /\ last.err = "ColumnError"
    /\ Valid(FieldType, last.value)

(***************************************************************************)
(* C3  Immutable tensor write: an assignment to a TensorFlowTensor field   *)
(* of a bound document always fails, with the RuntimeError of the          *)
(* immutability rule, and changes neither the document nor the stack; on a *)
(* document that is not bound the assignment is not rejected by that rule. *)
(***************************************************************************)
C3_ImmutableTensorWrite ==
    (Assigned /\ FieldType = "TensorFlowTensor") =>
        IF Bound
        THEN last.err = "RuntimeError" /\ DocState = last.pre
        ELSE last.err # "RuntimeError"

\* a value that is not itself a TensorFlow tensor was assigned to the
\* TensorFlowTensor field of a bound document
C3_Witness ==
    /\ Assigned /\ Bound /\ FieldType = "TensorFlowTensor"
    /\ last.value.kind = "ndarray"

(***************************************************************************)
(* C4  In-place tensor write: after a successful assignment to a mutable   *)
(* tensor field of a bound document the field refers to the same buffer as *)
(* before, the column still consists of the same buffers, no buffer was    *)
(* added, and the buffer (hence the column's row, its other alias) holds   *)
(* the new contents, broadcast to the buffer's shape.                      *)
(***************************************************************************)
C4_InPlaceTensorWrite ==
    (Assigned /\ Bound /\ FieldType = "NdArray" /\ last.err = "none") =>
        LET buffer == last.pre.fields[last.name] IN
        /\ fields[last.name] = buffer
        /\ tensor_columns = last.pre.tensor_columns
        /\ tensor_columns[last.name][da_index] = buffer
        /\ DOMAIN heap = DOMAIN last.pre.heap
        /\ heap[buffer] = Broadcast(ValidatedX, Len(last.pre.heap[buffer]))
        /\ \A r \in DOMAIN heap \ {buffer} : heap[r] = last.pre.heap[r]

\* a successful assignment that changed the contents of the buffer
C4_Witness ==
    /\ Assigned /\ Bound /\ FieldType = "NdArray" /\ last.err = "none"
    /\ heap # last.pre.heap

C6_QueryShape ==
    result.op = "execute_query" =>
        LET q == result.query IN
        IF Len(q) = 2 /\ {q[1][1], q[2][1]} = {"find", "filter"}
        THEN /\ result.err = "none"
             /\ Len(calls) = 1
             /\ calls[1].op = "ft.search"
        ELSE /\ result.err # "none"
             /\ calls = <<>>

\* a query with the filter first was executed, and one with two filters
\* refused
C6_Witness ==
    /\ result.op = "execute_query"
    /\ Len(result.query) >= 2
    /\ result.query[1][1] = "filter"
    /\ \/ result.err = "none"
       \/ Len(Component(result.query, "filter")) = 2

(***************************************************************************)
(* C7  Limit resolution: the limit of the search is the explicit limit of  *)
(* the find fragment if it has one (0 included), else the explicit limit   *)
(* of the filter fragment if it has one, else 10.                          *)
(***************************************************************************)
C7_LimitResolution ==
    (result.op = "execute_query" /\ result.err = "none") =>
        LET find   == Component(result.query, "find")[1][2]
            filter == Component(result.query, "filter")[1][2]
            limit  == IF find.limit # None THEN find.limit[1]
                      ELSE IF filter.limit # None THEN filter.limit[1]
                      ELSE 10
        IN  calls[1].knn = limit /\ calls[1].paging = <<0, limit>>

(***************************************************************************)
(* C8  Idempotent index creation: _create_index on an index that is        *)
(* present never raises, makes no create_index call and leaves the         *)
(* server's indexes as they are; on an absent index it ends, when it does  *)
(* not raise, with the index present; _check_index_exists only probes: it  *)
(* answers whether the index is present and changes nothing.               *)
(***************************************************************************)
CreatedName == ResolveName(result.db_config).index_name

C8_IdempotentIndexCreation ==
    /\ (/\ result.op \in {"__init__", "_create_index"}
        /\ Upper(result.db_config.text_scorer) \in VALID_TEXT_SCORERS) =>
          IF CreatedName \in DOMAIN result.indexes_before
          THEN /\ result.err = "none"
               /\ calls = <<InfoCall(CreatedName)>>
               /\ redis_indexes = result.indexes_before
          ELSE /\ result.err = "none" => CreatedName \in DOMAIN redis_indexes
               /\ \A n \in DOMAIN result.indexes_before :
                     n \in DOMAIN redis_indexes
                         /\ redis_indexes[n] = result.indexes_before[n]
    /\ result.op = "_check_index_exists" =>
          /\ result.err = "none"
          /\ result.ret = (result.name \in DOMAIN redis_indexes)
          /\ redis_indexes = result.indexes_before
          /\ calls = <<InfoCall(result.name)>>

\* _create_index was called again on the index the constructor created
C8_Witness ==
    /\ result.op = "_create_index"
    /\ CreatedName \in DOMAIN result.indexes_before
    /\ redis_indexes[CreatedName].schema # ForeignSchema

(***************************************************************************)
(* C9  Fail-fast configuration: when the metric or the algorithm of some   *)
(* vector column is not in the allow-list, the constructor raises the      *)
(* ValueError before any call to the server, whether or not the index      *)
(* exists, and creates no index.                                           *)
(***************************************************************************)
InvalidColumn(info) ==
    /\ info.db_type = "VectorField"
    /\ LET space == IF TruthyStr(info.config.space) THEN info.config.space
                    ELSE info.config.distance
       IN  \/ Upper(space[1]) \notin VALID_DISTANCES
           \/ Upper(info.config.algorithm) \notin VALID_ALGORITHMS

C9_FailFastConfiguration ==
    (/\ result.op = "__init__"
     /\ Upper(result.db_config.text_scorer) \in VALID_TEXT_SCORERS
     /\ \E i \in 1..Len(result.column_infos) :
            InvalidColumn(result.column_infos[i])) =>
        /\ result.err = "ValueError"
        /\ calls = <<>>
        /\ redis_indexes = result.indexes_before

(***************************************************************************)
(* C10  Insert with a missing id: with row k the first row of the batch    *)
(* whose id is None, empty or beyond the end of the id column, _index      *)
(* writes rows 1..k-1, each once and in order, under the key prefix + id,  *)
(* writes nothing else, and returns the ids of the rows written.           *)
(***************************************************************************)
IdOf(batch, row) == NextCell(batch.data["id"], row)

IdMissing(batch, row) ==
    IdOf(batch, row).type = "NoneType" \/ IdOf(batch, row).str = ""

FirstMissing(batch) ==
    CHOOSE k \in 1..(Len(batch.data["id"]) + 1) :
        /\ IdMissing(batch, k)
        /\ \A j \in 1..(k - 1) : ~IdMissing(batch, j)

\* what is stored of a cell
Stored(cell) ==
    CASE cell.type = "str"     -> JsonStr(cell.str)
      [] cell.type = "int"     -> cell
      [] cell.type = "NdArray" -> JsonList(cell.list)
      [] cell.type = "ndarray" ->
            JsonList([i \in 1..Len(cell.list) |-> Float32(cell.list[i])])

\* row j of the batch: the cells that are not None, by column
RowItem(batch, row) ==
    LET present == {c \in DOMAIN batch.data :
                       NextCell(batch.data[c], row).type # "NoneType"}
    IN  [c \in present |-> Stored(NextCell(batch.data[c], row))]

RECURSIVE PutAll(_, _, _, _)
PutAll(keys, batch, row, k) ==
    IF row >= k THEN keys
    ELSE PutAll(Put(keys, instance.prefix \o IdOf(batch, row).str,
                    RowItem(batch, row)),
                batch, row + 1, k)

KeyOf(id) == instance.prefix \o id

\* the requested ids that were stored when the operation began
StoredIds(doc_ids, keys) == {id \in Range(doc_ids) : KeyOf(id) \in DOMAIN keys}

(***************************************************************************)
(* C11  Deletion of absent ids: _del_items never raises; it removes        *)
(* exactly the stored documents whose id is in the list and leaves every   *)
(* other stored document as it was; when none of the ids is stored it      *)
(* issues no delete to the server and changes nothing.                     *)
(***************************************************************************)
C11_DeletionOfAbsentIds ==
    result.op = "_del_items" =>
        LET before == result.keys_before
            listed == {KeyOf(id) : id \in Range(result.doc_ids)}
        IN  /\ result.err = "none"
            /\ DOMAIN redis_keys = (DOMAIN before) \ listed
            /\ \A k \in DOMAIN redis_keys : redis_keys[k] = before[k]
            /\ StoredIds(result.doc_ids, before) = {} =>
                  /\ redis_keys = before
                  /\ \A i \in 1..Len(calls) : calls[i].op # "delete"

\* an id that is not stored was deleted together with one that is, while
\* another document stayed
C11_Witness ==
    /\ result.op = "_del_items"
    /\ "z" \in Range(result.doc_ids)
    /\ KeyOf("x") \in DOMAIN result.keys_before
    /\ "x" \in Range(result.doc_ids)
    /\ KeyOf("y") \in DOMAIN redis_keys

(***************************************************************************)
(* C12  Fetch by id: for a non-empty request _get_items returns the stored *)
(* documents of the requested ids that exist, in the order of the request, *)
(* and leaves out the missing ones without error when at least one exists; *)
(* it raises the KeyError that names the requested ids when none exists;   *)
(* an empty request returns the empty list and is no error.                *)
(***************************************************************************)
C12_FetchById ==
    result.op = "_get_items" =>
        LET doc_ids  == result.doc_ids
            existing == SelectSeq(doc_ids,
                                  LAMBDA id : KeyOf(id) \in DOMAIN redis_keys)
        IN  IF doc_ids = <<>>
            THEN result.err = "none" /\ result.ret = <<>>
            ELSE IF existing = <<>>
            THEN result.err = "KeyError" /\ result.named = doc_ids
            ELSE /\ result.err = "none"
                 /\ result.ret = [i \in 1..Len(existing) |->
                                     redis_keys[KeyOf(existing[i])]]

\* a request of a missing id and, after it, a stored one
C12_Witness ==
    /\ result.op = "_get_items"
    /\ Len(result.doc_ids) = 2
    /\ KeyOf(result.doc_ids[1]) \notin DOMAIN redis_keys
    /\ KeyOf(result.doc_ids[2]) \in DOMAIN redis_keys
    /\ Len(result.ret) = 1

(***************************************************************************)
(* C13  Round-trip through the store: when a document with a non-empty id  *)
(* has been inserted with _index and is then fetched with                  *)
(* _get_items([id]), the result is one item that equals the document field *)
(* by field: a field that is None is absent, a discrete field holds its    *)
(* value exactly (falsy values included), a tensor field holds the flat    *)
(* list of its values, within the precision of float32 for a numpy array.  *)
(***************************************************************************)
\* the cell of column c in a row of a batch
CellOf(batch, c, row) == NextCell(batch.data[c], row)

\* a and b differ by no more than the precision of float32
Float32Close(a, b) ==
    LET diff == IF a >= b THEN a - b ELSE b - a
        size == IF b >= 0 THEN b ELSE 0 - b
    IN  diff * 8388608 <= size

\* the item's field c is the inserted cell
FieldEqual(item, c, cell) ==
    CASE cell.type = "NoneType" -> c \notin DOMAIN item
      [] cell.type = "str" ->
            c \in DOMAIN item /\ item[c].type = "str" /\ item[c].str = cell.str
      [] cell.type = "int" ->
            c \in DOMAIN item /\ item[c].type = "int" /\ item[c].list = cell.list
      [] cell.type = "NdArray" ->
            c \in DOMAIN item /\ item[c].type = "list" /\ item[c].list = cell.list
      [] cell.type = "ndarray" ->
            /\ c \in DOMAIN item
            /\ item[c].type = "list"
            /\ Len(item[c].list) = Len(cell.list)
            /\ \A i \in 1..Len(cell.list) :
                  Float32Close(item[c].list[i], cell.list[i])

\* the rows of the batch that hold the last document inserted under id
LastRowsOf(batch, id) ==
    {j \in 1..Len(batch.data["id"]) :
        /\ CellOf(batch, "id", j).str = id
        /\ \A l \in (j + 1)..Len(batch.data["id"]) :
              CellOf(batch, "id", l).str # id}

StoredDocs == {redis_keys[k] : k \in KeysOf(redis_keys, instance.prefix)}

\* the metric of the instance's field
Metric(search_field) ==
    MetricOf(redis_indexes, instance.db_config.index_name, search_field)

\* i is before j in the sequence
Ascending(scores) ==
    \A i, j \in 1..Len(scores) : i < j => scores[i] <= scores[j]

(***************************************************************************)
(* C14  Batched queries: _find_batched, _filter_batched and                *)
(* _text_search_batched run the single query once per input, in the order  *)
(* of the inputs; they return one result per input, result j being the     *)
(* result of the single query of input j (none for no input); when the     *)
(* query of an input fails, its error surfaces and no later input is       *)
(* queried.                                                                *)
(***************************************************************************)
Batched ==
    result.op \in {"_find_batched", "_filter_batched", "_text_search_batched"}

\* the single query of input j of the last batched search
Single(j) ==
    LET a == result.args IN
    CASE result.op = "_find_batched" ->
            _find(redis_indexes, redis_keys, instance.db_config, a.queries[j],
                  a.limit, a.search_field)
      [] result.op = "_filter_batched" ->
            _filter(redis_indexes, redis_keys, instance.db_config, a.queries[j],
                    a.limit)
      [] result.op = "_text_search_batched" ->
            _text_search(redis_indexes, redis_keys, instance.db_config,
                         a.queries[j], a.limit, a.search_field)

C14_BatchedQueries ==
    Batched =>
        LET n      == Len(result.args.queries)
            failed == {j \in 1..n : Single(j).err # "none"}
        IN  IF failed = {}
            THEN /\ result.err = "none"
                 /\ Len(result.documents) = n
                 /\ Len(result.scores) = n
                 /\ \A j \in 1..n :
                       /\ result.documents[j] = Single(j).documents
                       /\ result.scores[j] = Single(j).scores
                 /\ calls = [j \in 1..n |-> Single(j).calls[1]]
            ELSE LET f == CHOOSE j \in failed : \A l \in failed : j <= l IN
                 /\ result.err = Single(f).err
                 /\ calls = [j \in 1..f |-> Single(j).calls[1]]

\* two queries with different results, in their order
C14_Witness ==
    /\ Batched
    /\ Len(result.args.queries) = 2
    /\ result.err = "none"
    /\ result.documents[1] # result.documents[2]
    /\ result.documents[2] # <<>>

(***************************************************************************)
(* C15  Hybrid search result, as claimed: _hybrid_search returns at most   *)
(* limit documents, every one satisfies the filter, the scores ascend, no  *)
(* stored document that satisfies the filter and is left out has a         *)
(* strictly smaller score than a returned one, and when limit is 1 a       *)
(* stored document whose vector equals the query is returned first, with   *)
(* the minimal score.                                                      *)
(***************************************************************************)
\* the stored documents that satisfy the filter of the last search
Candidates == {doc \in StoredDocs : Matches(doc, result.args.filter_query)}

HybridResult ==
    LET a == result.args IN
    /\ Len(result.documents) <= a.limit
    /\ \A i \in 1..Len(result.documents) :
          Matches(result.documents[i], a.filter_query)
    /\ Ascending(result.scores)
    /\ \A doc \in Candidates \ Range(result.documents) :
          \A i \in 1..Len(result.scores) :
              Score(Metric(a.search_field), doc, a.search_field, a.query)
                  >= result.scores[i]

\* the first document returned has the vector of the query and a score no
\* document of S has less than
QueryReturnedFirst(S) ==
    LET a == result.args IN
    /\ Len(result.documents) = 1
    /\ result.documents[1][a.search_field].list = a.query
    /\ \A doc \in S :
          result.scores[1]
              <= Score(Metric(a.search_field), doc, a.search_field, a.query)

C15_HybridSearchResult ==
    (result.op = "_hybrid_search" /\ result.err = "none") =>
        /\ HybridResult
        /\ (/\ result.args.limit = 1
            /\ \E doc \in StoredDocs :
                  doc[result.args.search_field].list = result.args.query)
              => QueryReturnedFirst(StoredDocs)

(***************************************************************************)
(* C15, amended: the four properties of the result hold as claimed; when   *)
(* limit is 1, the metric of the field is L2 and a stored document that    *)
(* satisfies the filter has the vector of the query, the document returned *)
(* is such a document and its score, 0, is the least of the documents that *)
(* satisfy the filter.                                                     *)
(***************************************************************************)
C15_HybridSearchResultL2 ==
    (result.op = "_hybrid_search" /\ result.err = "none") =>
        /\ HybridResult
        /\ (/\ result.args.limit = 1
            /\ Metric(result.args.search_field) = "L2"
            /\ \E doc \in Candidates :
                  doc[result.args.search_field].list = result.args.query)
              => /\ QueryReturnedFirst(Candidates)
                 /\ result.scores[1] = 0

\* a search with a filter that leaves documents out, limit 1, and a stored
\* document that has the vector of the query
C15_Witness ==
    /\ result.op = "_hybrid_search" /\ result.err = "none"
    /\ result.args.limit = 1
    /\ result.args.filter_query = "@text:t"
    /\ Metric(result.args.search_field) = "L2"
    /\ Cardinality(Candidates) >= 2
    /\ Candidates # StoredDocs
    /\ Len(result.documents) = 1
    /\ result.documents[1][result.args.search_field].list = result.args.query

(***************************************************************************)
(* C16  Search result length: a result of _hybrid_search, _find,           *)
(* _text_search or execute_query has as many scores as documents, score j  *)
(* being the score of document j; when no stored document matches, the     *)
(* result is empty (no documents, no scores) and there is no error.        *)
(***************************************************************************)
ScoredSearch ==
    result.op \in {"_hybrid_search", "_find", "_text_search", "execute_query"}

\* the find and the filter side of the last search
FindSide ==
    IF result.op = "execute_query"
    THEN Component(result.args.query, "find")[1][2]
    ELSE result.args

FilterOfSearch ==
    CASE result.op = "execute_query" ->
            Component(result.args.query, "filter")[1][2].filter_query
      [] result.op = "_hybrid_search" -> result.args.filter_query
      [] OTHER -> "*"

\* the score of a document under the last search
ScoreOf(doc) ==
    IF result.op = "_text_search"
    THEN TextScore(doc, result.args.search_field, Split(result.args.query))
    ELSE Score(Metric(FindSide.search_field), doc, FindSide.search_field,
               FindSide.query)

\* the stored documents the last search matches
Matching ==
    IF result.op = "_text_search"
    THEN {doc \in StoredDocs : ScoreOf(doc) > 0}
    ELSE {doc \in StoredDocs : Matches(doc, FilterOfSearch)}

\* the server can answer the last search: the query parses and the vector
\* has the dimension of the field
WellFormed ==
    IF result.op = "_text_search"
    THEN result.args.query # ""
    ELSE ~FtSearchRaises(redis_indexes, instance.db_config.index_name,
                         FilterOfSearch, FindSide.search_field, FindSide.query)

C16_ResultLength ==
    ScoredSearch =>
        /\ result.err = "none" =>
              /\ Len(result.documents) = Len(result.scores)
              /\ \A j \in 1..Len(result.documents) :
                    result.scores[j] = ScoreOf(result.documents[j])
        /\ (WellFormed /\ Matching = {}) =>
              /\ result.err = "none"
              /\ result.documents = <<>>
              /\ result.scores = <<>>

\* a search on a store that is not empty whose filter matches nothing, and
\* one that returns a document with the score 0
C16_Witness ==
    /\ ScoredSearch
    /\ StoredDocs # {}
    /\ result.err = "none"
    /\ \/ result.op = "execute_query" /\ Matching = {}
       \/ result.op = "_hybrid_search" /\ 0 \in Range(result.scores)

(***************************************************************************)
(* C17  Pure vector search is hybrid search with the match-all filter:     *)
(* _find returns the documents and scores of _hybrid_search with the       *)
(* filter '*', and those of execute_query on a find fragment and a filter  *)
(* fragment with the filter '*' and the same limit.                        *)
(***************************************************************************)
SameResult(a, b) ==
    /\ a.err = b.err
    /\ a.documents = b.documents
    /\ a.scores = b.scores

C17_FindIsHybridWithMatchAll ==
    result.op = "_find" =>
        LET a        == result.args
            hybrid   == _hybrid_search(redis_indexes, redis_keys,
                                       instance.db_config, a.query, "*",
                                       a.search_field, a.limit)
            executed == execute_query(redis_indexes, redis_keys,
                            instance.db_config,
                            <<<<"find", [query |-> a.query,
                                         search_field |-> a.search_field,
                                         limit |-> Some(a.limit)]>>,
                              <<"filter", [filter_query |-> "*",
                                           limit |-> Some(a.limit)]>>>>)
        IN  /\ SameResult(result, hybrid)
            /\ SameResult(result, [executed.found EXCEPT !.err = executed.err])

(***************************************************************************)
(* C18  Vector field spec at index creation: every vector field emitted by *)
(* _create_index has TYPE FLOAT32, a DIM that is there and positive and a  *)
(* DISTANCE_METRIC of the allow-list; each of EF_CONSTRUCTION, EF_RUNTIME, *)
(* M and INITIAL_CAP is emitted, with its configured value, exactly when   *)
(* that value is not None (0 is emitted).                                  *)
(***************************************************************************)
\* the last operation created the index
Created ==
    /\ result.op \in {"__init__", "_create_index"}
    /\ result.err = "none"
    /\ CreatedName \notin DOMAIN result.indexes_before

\* the configured value of a tuning parameter
Tuning(info, attribute) ==
    CASE attribute = "EF_CONSTRUCTION" -> info.config.ef_construction
      [] attribute = "EF_RUNTIME"      -> info.config.ef_runtime
      [] attribute = "M"               -> info.config.m
      [] attribute = "INITIAL_CAP"     -> info.config.initial_cap

C18_VectorFieldSpec ==
    Created =>
        LET emitted == redis_indexes[CreatedName].schema IN
        \A i \in 1..Len(result.column_infos) :
            result.column_infos[i].db_type = "VectorField" =>
                LET attributes == emitted[i].attributes
                    info       == result.column_infos[i]
                IN  /\ "TYPE" \in DOMAIN attributes
                    /\ attributes["TYPE"] = "FLOAT32"
                    /\ "DIM" \in DOMAIN attributes
                    /\ attributes["DIM"] > 0
                    /\ "DISTANCE_METRIC" \in DOMAIN attributes
                    /\ attributes["DISTANCE_METRIC"] \in VALID_DISTANCES
                    /\ \A t \in {"EF_CONSTRUCTION", "EF_RUNTIME", "M", "INITIAL_CAP"} :
                          /\ (t \in DOMAIN attributes) <=> (Tuning(info, t) # None)
                          /\ (t \in DOMAIN attributes) =>
                                attributes[t] = Tuning(info, t)[1]

(***************************************************************************)
(* C19  Type mapping precedence: python_type_to_db_type gives a type the   *)
(* column kind of the first rule it matches in the order vector-like,      *)
(* numeric, text, bytes (so a type that is vector-like and also numeric or *)
(* text is a vector), and raises the ValueError for a type that matches no *)
(* rule; the result is a function of the type.                             *)
(***************************************************************************)
VectorLike(python_type) ==
    python_type \cap {"ndarray", "list", "AbstractTensor"} # {}

Numeric(python_type) == python_type \cap {"int", "float"} # {}

Text(python_type) == "str" \in python_type

Bytes(python_type) == "bytes" \in python_type

C19_TypeMappingPrecedence ==
    result.op = "python_type_to_db_type" =>
        LET t == result.python_type IN
        /\ VectorLike(t) => result.err = "none" /\ result.ret = "VectorField"
        /\ (~VectorLike(t) /\ Numeric(t)) =>
              result.err = "none" /\ result.ret = "NumericField"
        /\ (~VectorLike(t) /\ ~Numeric(t) /\ (Text(t) \/ Bytes(t))) =>
              result.err = "none" /\ result.ret = "TextField"
        /\ (~VectorLike(t) /\ ~Numeric(t) /\ ~Text(t) /\ ~Bytes(t)) =>
              result.err = "ValueError"
        /\ result.err = python_type_to_db_type(t).err
        /\ result.ret = python_type_to_db_type(t).ret

(***************************************************************************)
(* C20  Case normalization of allow-listed strings: the constructor        *)
(* accepts the names of the text scorer and of the distance metric and the *)
(* algorithm of every vector column exactly when their upper-cased forms   *)
(* are in the allow-lists; the upper-cased scorer is what the              *)
(* configuration holds, the upper-cased metric and algorithm what is       *)
(* emitted to the server.                                                  *)
(***************************************************************************)
AllowListed(db_config, column_infos) ==
    /\ Upper(db_config.text_scorer) \in VALID_TEXT_SCORERS
    /\ \A i \in 1..Len(column_infos) : ~InvalidColumn(column_infos[i])

\* the name of the metric of a vector column: 'space' or else 'distance'
SpaceOf(info) == PyOrStr(info.config.space, info.config.distance)[1]

C20_CaseNormalization ==
    result.op = "__init__" =>
        /\ (result.err = "none")
              <=> AllowListed(result.db_config, result.column_infos)
        /\ result.err = "none" =>
              instance.db_config.text_scorer = Upper(result.db_config.text_scorer)
        /\ Created =>
              \A i \in 1..Len(result.column_infos) :
                  LET info  == result.column_infos[i]
                      field == redis_indexes[CreatedName].schema[i]
                  IN  info.db_type = "VectorField" =>
                        /\ field.attributes["DISTANCE_METRIC"] = Upper(SpaceOf(info))
                        /\ field.algorithm = Upper(info.config.algorithm)

(***************************************************************************)
(* C21  Stored key set: the store of an index starts empty; an _index adds *)
(* the key prefix + id of every id it inserts, each holding the item of    *)
(* the last insert of that id (an id that was stored is overwritten, never *)
(* stored twice), a _del_items removes the keys of the ids it lists, and   *)
(* nothing else changes the keys.  So the keys under the prefix are those  *)
(* of the ids inserted and not deleted since, each with the item of its    *)
(* most recent insert, and every key is the key of the id of its item.     *)
(***************************************************************************)
\* the ids of the rows the last _index inserted
InsertedIds ==
    {CellOf(result.column_to_data, "id", j).str : j \in 1..Len(result.ret)}

C21_StoredKeySet ==
    /\ \A k \in DOMAIN redis_keys :
          /\ k \in KeysOf(redis_keys, instance.prefix)
          /\ "id" \in DOMAIN redis_keys[k]
          /\ k = KeyOf(redis_keys[k]["id"].str)
    /\ result.op = "none" => DOMAIN redis_keys = {}
    /\ result.op = "_index" =>
          LET before == result.keys_before
              batch  == result.column_to_data
          IN  /\ DOMAIN redis_keys =
                    (DOMAIN before) \cup {KeyOf(id) : id \in InsertedIds}
              /\ \A id \in InsertedIds :
                    \A j \in LastRowsOf(batch, id) :
                        redis_keys[KeyOf(id)] = RowItem(batch, j)
              /\ \A k \in DOMAIN before :
                    k \notin {KeyOf(id) : id \in InsertedIds} =>
                        redis_keys[k] = before[k]
    /\ result.op = "_del_items" =>
          /\ DOMAIN redis_keys =
                (DOMAIN result.keys_before)
                    \ {KeyOf(id) : id \in Range(result.doc_ids)}
          /\ \A k \in DOMAIN redis_keys : redis_keys[k] = result.keys_before[k]
    /\ result.op = "_get_items" => redis_keys = result.keys_before

\* an id that was stored was inserted again with another item and is stored
\* once, while the other id stayed
C21_Witness ==
    /\ result.op = "_index"
    /\ KeyOf("x") \in DOMAIN result.keys_before
    /\ KeyOf("y") \in DOMAIN result.keys_before
    /\ "x" \in InsertedIds
    /\ redis_keys[KeyOf("x")] # result.keys_before[KeyOf("x")]
    /\ Cardinality(DOMAIN redis_keys) = 2

(***************************************************************************)
(* C22  Key namespacing isolates indexes: every key an operation of an     *)
(* index writes, reads, probes or deletes is index_name + ':' + id for an  *)
(* id of the operation; it is no key an index of another name addresses    *)
(* for any id, and an insertion into or a deletion from one index leaves   *)
(* what an index of another name fetches as it was.                        *)
(***************************************************************************)
\* the keys the calls of the last operation name
Addressed ==
    UNION {IF calls[i].op = "delete" THEN Range(calls[i].keys)
           ELSE IF calls[i].op \in {"json.set", "json.get", "exists"}
                THEN {calls[i].key} ELSE {} : i \in 1..Len(calls)}

\* the names of the other indexes
OtherNames == SharedNames \ {instance.db_config.index_name}

\* what _get_items of the index of the given name returns from a store
Fetched(name, keys, doc_ids) ==
    LET got == _get_items(name \o ":", keys, doc_ids) IN <<got.err, got.ret>>

C22_KeyNamespacing ==
    result.op \in {"_index", "_del_items", "_get_items"} =>
        /\ Addressed \subseteq
              {instance.db_config.index_name \o ":" \o id :
                  id \in Range(result.doc_ids)}
        /\ \A name \in OtherNames :
              /\ \A id \in SharedIds : (name \o ":" \o id) \notin Addressed
              /\ \A doc_ids \in SharedIdLists :
                    Fetched(name, redis_keys, doc_ids)
                        = Fetched(name, result.keys_before, doc_ids)

(***************************************************************************)
(* C23  Insert terminates: for every batch of finite columns (columns of   *)
(* unequal length and a batch without an 'id' column included) _index      *)
(* ends, by returning or by raising, after at most as many writes to the   *)
(* server as the id column has entries, and the generator yields no row    *)
(* beyond the end of the id column.                                        *)
(***************************************************************************)
\* the entries of the id column of the batch _index is working on
IdEntries ==
    IF "id" \in DOMAIN generator.column_to_data.data
    THEN Len(generator.column_to_data.data["id"]) ELSE 0

C23_RowsWithinIdColumn ==
    /\ Len(generator.ids) <= IdEntries
    /\ Len(calls) <= IdEntries
    /\ generator.yielded <= IdEntries

\* an _index under way comes to its end
C23_IndexEnds == generator.running ~> ~generator.running

====
